---- MODULE Spec2Model ----
(***************************************************************************)
(* The security control plane of secure-personal-os: the permission        *)
(* manager (file, rate-limit and lockout policy), the credential vault and *)
(* the sandbox, each translated from src/security/*.py.                    *)
(*                                                                         *)
(* Strings the code inspects by character (paths, patterns, commands) are  *)
(* sequences of one-character strings; names that are only compared        *)
(* (actions, services, identifiers, passwords) are TLA+ strings.           *)
(* File-system and process operations are taken to succeed: the I/O        *)
(* failure paths of the code are outside the model, except where a handler *)
(* is named explicitly below.                                              *)
(***************************************************************************)
EXTENDS Integers, Sequences, FiniteSets, TLC

VARIABLES
    config,             \* PermissionManager.config (loaded once by __init__)
    rate_limiter,       \* PermissionManager.rate_limiter: action -> timestamps
    failed_attempts,    \* PermissionManager.failed_attempts: identifier -> timestamps
    now,                \* the wall clock read by datetime.now(), in ticks
    request,            \* the arguments of a call about to be made, or None
    call,               \* the last call made on the API and what it returned
    permitted,          \* history: per action, the times of all permitted calls
    ncalls,             \* history: per action, the number of calls made
    failures,           \* history: per identifier, all failures since its last clear
    cipher_suite,       \* CredentialVault.cipher_suite: None, or the key it encrypts under
    credentials,        \* CredentialVault.credentials: service -> identifier -> entry
    last_access,        \* CredentialVault.last_access: None or a time
    vault_file,         \* the file at vault_path: None (absent) or a ciphertext
    salt_file,          \* the file at vault_path + '.salt': None (absent) or a salt
    vault_mode,         \* the permission bits of the file at vault_path, None when absent
    sandbox_dir,        \* SandboxEnvironment.sandbox_dir: None or a directory
    active_processes,   \* SandboxEnvironment.active_processes: a list of processes
    directories,        \* the sandbox directories that exist on disk
    processes,          \* every process ever spawned -> "running", "exited" or "killed"
    scopes,             \* each create_sandbox scope: where it stands and the directory it made
    monitored,          \* the process execute_sandboxed_command is waiting for, or None
    browser,            \* PlaywrightManager.browser: None or the browser launched
    launches,           \* history: the number of browsers launched so far
    session_active      \* SecurePersonalOS.session_active

(***************************************************************************)
(* Python's None and optional values: None is the empty tuple, a present   *)
(* value x is <<x>>.                                                       *)
(***************************************************************************)
None == <<>>

Some(x) == <<x>>

(***************************************************************************)
(* Bounds of the model.                                                    *)
(***************************************************************************)
MaxDepth == 2           \* path inputs have at most this many segments
MaxPatterns == 2        \* each pattern list of the policy has at most this many entries
MaxTime == 4            \* the clock stops after this many ticks
TicksPerHour == 2       \* the resolution of the clock: ticks in one hour
MaxLimit == 2           \* configured rate limits range over 0..MaxLimit
MaxCalls == 4           \* calls that reach the rate limiter in one behaviour
MaxAttempts == 2        \* configured max_failed_attempts ranges over 1..MaxAttempts
MaxDuration == 2        \* configured lockout_duration ranges over 1..MaxDuration ticks
MaxFailures == 3        \* failures recorded for one identifier between two clears
NumSalts == 4           \* the salts os.urandom can return (one more than can be in use)
MaxVaultTime == 2       \* the vault's clock stops after this many ticks
MaxAccess == 1          \* an entry is retrieved at most this many times
MaxScopes == 2          \* create_sandbox scopes that can be open on one object
MaxDirs == 2            \* sandbox directories made in one behaviour
MaxProcs == 1           \* processes spawned in one behaviour

(***************************************************************************)
(* String helpers: str.startswith, str.endswith, str.split, str.join,      *)
(* str.rstrip and the substring test, on sequences of characters.          *)
(***************************************************************************)
startswith(s, p) == Len(p) <= Len(s) /\ SubSeq(s, 1, Len(p)) = p

endswith(s, p) == Len(p) <= Len(s) /\ SubSeq(s, Len(s) - Len(p) + 1, Len(s)) = p

contains(s, p) == \E i \in 1..(Len(s) - Len(p) + 1) : SubSeq(s, i, i + Len(p) - 1) = p

RECURSIVE split(_, _)
split(s, sep) ==
    IF \A i \in 1..Len(s) : s[i] # sep
    THEN <<s>>
    ELSE LET i == CHOOSE k \in 1..Len(s) : s[k] = sep /\ \A j \in 1..(k - 1) : s[j] # sep
         IN  <<SubSeq(s, 1, i - 1)>> \o split(SubSeq(s, i + 1, Len(s)), sep)

RECURSIVE join(_, _)
join(comps, sep) ==
    IF comps = <<>> THEN <<>>
    ELSE IF Len(comps) = 1 THEN comps[1]
    ELSE comps[1] \o <<sep>> \o join(Tail(comps), sep)

RECURSIVE rstrip(_, _)
rstrip(s, c) ==
    IF s # <<>> /\ s[Len(s)] = c THEN rstrip(SubSeq(s, 1, Len(s) - 1), c) ELSE s

Dot == <<".">>
DotDot == <<".", ".">>

(***************************************************************************)
(* os.path.normpath and os.path.abspath (posixpath), as the code calls     *)
(* them: empty and "." components are dropped, ".." removes the component  *)
(* before it (and is dropped at the root), exactly two leading slashes are *)
(* kept, and a relative path is joined to the working directory first.     *)
(***************************************************************************)
Cwd == <<"/", "w">>

RECURSIVE norm_comps(_, _, _)
norm_comps(comps, new_comps, initial_slashes) ==
    IF comps = <<>> THEN new_comps
    ELSE LET comp == Head(comps)
             rest == Tail(comps)
         IN  IF comp = <<>> \/ comp = Dot
             THEN norm_comps(rest, new_comps, initial_slashes)
             ELSE IF \/ comp # DotDot
                     \/ (initial_slashes = 0 /\ new_comps = <<>>)
                     \/ (new_comps # <<>> /\ new_comps[Len(new_comps)] = DotDot)
             THEN norm_comps(rest, Append(new_comps, comp), initial_slashes)
             ELSE IF new_comps # <<>>
             THEN norm_comps(rest, SubSeq(new_comps, 1, Len(new_comps) - 1), initial_slashes)
             ELSE norm_comps(rest, new_comps, initial_slashes)

normpath(path) ==
    IF path = <<>> THEN Dot
    ELSE LET initial_slashes ==
                 IF path[1] # "/" THEN 0
                 ELSE IF startswith(path, <<"/", "/">>) /\ ~startswith(path, <<"/", "/", "/">>)
                      THEN 2 ELSE 1
             body == join(norm_comps(split(path, "/"), <<>>, initial_slashes), "/")
             full == IF initial_slashes = 2 THEN <<"/", "/">> \o body
                     ELSE IF initial_slashes = 1 THEN <<"/">> \o body
                     ELSE body
         IN  IF full = <<>> THEN Dot ELSE full

abspath(path) ==
    IF path # <<>> /\ path[1] = "/" THEN normpath(path)
    ELSE normpath(Cwd \o <<"/">> \o path)

basename(path) == LET comps == split(path, "/") IN comps[Len(comps)]

(***************************************************************************)
(* fnmatch.fnmatch on POSIX: "*" matches any run of characters (the path   *)
(* separator included), "?" any one character, anything else itself, and   *)
(* the whole name must match.                                              *)
(***************************************************************************)
RECURSIVE fnmatch(_, _)
fnmatch(name, pat) ==
    IF pat = <<>> THEN name = <<>>
    ELSE IF Head(pat) = "*"
         THEN fnmatch(name, Tail(pat)) \/ (name # <<>> /\ fnmatch(Tail(name), pat))
    ELSE IF Head(pat) = "?"
         THEN name # <<>> /\ fnmatch(Tail(name), Tail(pat))
    ELSE name # <<>> /\ Head(name) = Head(pat) /\ fnmatch(Tail(name), Tail(pat))

(***************************************************************************)
(* pathlib.Path(p).suffix.lower(): the last dot of the final component and *)
(* what follows it, unless that dot starts or ends the component.  The     *)
(* model's characters are lower case already.                              *)
(***************************************************************************)
suffix(path) ==
    LET name == basename(rstrip(path, "/"))
        dots == {i \in 1..Len(name) : name[i] = "."}
    IN  IF dots = {} THEN <<>>
        ELSE LET i == CHOOSE k \in dots : \A j \in dots : j <= k
             IN  IF 1 < i /\ i < Len(name) THEN SubSeq(name, i, Len(name)) ELSE <<>>

(***************************************************************************)
(* PermissionManager._path_matches                                         *)
(***************************************************************************)
path_matches(path, pattern) ==
    LET abs_path == abspath(path)
    IN  IF contains(pattern, <<"*", "*">>)
        THEN fnmatch(abs_path, pattern)
        ELSE IF endswith(pattern, <<"/">>)
        THEN startswith(abs_path, abspath(rstrip(pattern, "/")) \o <<"/">>)
        ELSE startswith(abs_path, abspath(pattern))

(***************************************************************************)
(* PermissionManager._is_sensitive_file                                    *)
(***************************************************************************)
is_sensitive_file(file_path) ==
    suffix(file_path) \in config.sensitive_extensions

FirstMatch(abs_path, patterns) ==
    LET hits == {i \in DOMAIN patterns : path_matches(abs_path, patterns[i])}
    IN  IF hits = {} THEN 0 ELSE CHOOSE i \in hits : \A j \in hits : i <= j

(***************************************************************************)
(* PermissionManager.check_file_access: the decision (allowed, reason).    *)
(* The mutant consults the allow list before the block list.               *)
(***************************************************************************)
check_file_access_default_allow(file_path) ==
    LET abs_path == abspath(file_path)
        blocked == FirstMatch(abs_path, config.blocked_paths)
    IN  IF blocked # 0
        THEN [allowed |-> FALSE, reason |-> "Access denied: Path is blocked",
              pattern |-> config.blocked_paths[blocked]]
        ELSE [allowed |-> TRUE, reason |-> "Access granted", pattern |-> <<>>]

check_file_access_allow_first(file_path) ==
    LET abs_path == abspath(file_path)
        blocked == FirstMatch(abs_path, config.blocked_paths)
        allowed == FirstMatch(abs_path, config.allowed_paths)
    IN  IF allowed # 0
        THEN [allowed |-> TRUE, reason |-> "Access granted", pattern |-> <<>>]
        ELSE IF blocked # 0
        THEN [allowed |-> FALSE, reason |-> "Access denied: Path is blocked",
              pattern |-> config.blocked_paths[blocked]]
        ELSE [allowed |-> FALSE, reason |-> "Access denied: Path not in allowed directories",
              pattern |-> <<>>]

check_file_access(file_path) ==
    LET abs_path == abspath(file_path)
        blocked == FirstMatch(abs_path, config.blocked_paths)
        allowed == FirstMatch(abs_path, config.allowed_paths)
    IN  IF blocked # 0
        THEN [allowed |-> FALSE, reason |-> "Access denied: Path is blocked",
              pattern |-> config.blocked_paths[blocked]]
        ELSE IF config.allowed_paths = <<>>
        THEN [allowed |-> FALSE, reason |-> "No allowed paths configured", pattern |-> <<>>]
        ELSE IF allowed # 0
        THEN IF is_sensitive_file(abs_path)
             THEN [allowed |-> TRUE, reason |-> "Sensitive file access", pattern |-> <<>>]
             ELSE [allowed |-> TRUE, reason |-> "Access granted", pattern |-> <<>>]
        ELSE [allowed |-> FALSE, reason |-> "Access denied: Path not in allowed directories",
              pattern |-> <<>>]

(***************************************************************************)
(* The inputs of the file-access checks: absolute and relative paths of up *)
(* to MaxDepth segments, and pattern lists of up to MaxPatterns patterns,  *)
(* one pattern or more for each branch of _path_matches.                   *)
(***************************************************************************)
SeqsUpTo(S, n) == UNION {[1..k -> S] : k \in 0..n}

PathSegs == {<<"a">>, <<"b">>, DotDot, <<"a", ".", "b">>}

PathInputs ==
    {prefix \o join(segs, "/") :
        prefix \in {<<>>, <<"/">>}, segs \in SeqsUpTo(PathSegs, MaxDepth) \ {<<>>}}

PatternSet ==
    { <<"/", "a", "/">>,                 \* a directory pattern
      <<"/", "a">>,                      \* a literal prefix
      <<"/", "*", "*", "/", "b">> }      \* a recursive wildcard

SensitiveExtensions == {<<".", "b">>}

(***************************************************************************)
(* The action names of the model.  As in the default configuration,        *)
(* "send_email" is both confirmation-required and rate-limited; "search"   *)
(* and "export" are rate-limited only and "read_email" is neither.         *)
(***************************************************************************)
ActionNames == {"send_email", "search", "export", "read_email"}

RateLimited == {"search", "export"}

DefaultConfig ==
    [ blocked_paths |-> <<>>,
      allowed_paths |-> <<>>,
      sensitive_extensions |-> SensitiveExtensions,
      require_confirmation |-> {"send_email"},
      rate_limits |-> [a \in {"send_email"} |-> 1],
      max_failed_attempts |-> 1,
      lockout_duration |-> 1,
      log_level |-> "INFO" ]

NoCall == [op |-> "none"]

vars == <<config, rate_limiter, failed_attempts, now, request, call, permitted, ncalls, failures,
          cipher_suite, credentials, last_access, vault_file, salt_file, vault_mode,
          sandbox_dir, active_processes, directories, processes, scopes, monitored,
          browser, launches, session_active>>

session_state == <<browser, launches, session_active>>

policy_state == <<rate_limiter, failed_attempts, now, permitted, ncalls, failures>>

vault_state == <<cipher_suite, credentials, last_access, vault_file, salt_file, vault_mode>>

sandbox_state == <<sandbox_dir, active_processes, directories, processes, scopes, monitored>>

rate_state == <<rate_limiter, permitted, ncalls>>

lockout_state == <<failed_attempts, failures>>

InitRest ==
    /\ rate_limiter = <<>>
    /\ failed_attempts = <<>>
    /\ now = 0
    /\ call = NoCall
    /\ permitted = <<>>
    /\ ncalls = <<>>
    /\ failures = <<>>
    /\ cipher_suite = None
    /\ credentials = <<>>
    /\ last_access = None
    /\ vault_file = None
    /\ salt_file = None
    /\ vault_mode = None
    /\ sandbox_dir = None
    /\ active_processes = <<>>
    /\ directories = {}
    /\ processes = <<>>
    /\ scopes = [k \in 1..MaxScopes |-> [pc |-> "out", dir |-> None]]
    /\ monitored = None
    /\ browser = None
    /\ launches = 0
    /\ session_active = FALSE

(***************************************************************************)
(* The file-access policy: any configuration and any path, then the check *)
(* of that path.                                                           *)
(***************************************************************************)
(***************************************************************************)
(* The audit log.  _setup_logging gives the logger the level of the        *)
(* configuration's audit.log_level ('INFO' when absent) and a file handler *)
(* that appends; a line logged below that level is not written.  emitted   *)
(* is what a call appends to the file, given the lines it logs.  Each      *)
(* return of a check stands next to the logger call of its branch, so the  *)
(* lines a check logs are told from the decision it returns:               *)
(* check_file_access logs nothing where it returns "No allowed paths       *)
(* configured".  log_security_event logs at ERROR for three event types    *)
(* and at INFO for every other.                                            *)
(***************************************************************************)
LogLevels == {"INFO", "WARNING", "ERROR"}

LevelNo(level) ==
    CASE level = "INFO" -> 20
      [] level = "WARNING" -> 30
      [] level = "ERROR" -> 40

AuditLine(level, event) == [level |-> level, event |-> event]

emitted(lines) ==
    SelectSeq(lines, LAMBDA line : LevelNo(line.level) >= LevelNo(config.log_level))

log_security_event(event_type) ==
    AuditLine(IF event_type \in {"VIOLATION", "BLOCKED", "FAILED_AUTH"} THEN "ERROR" ELSE "INFO",
            event_type)

check_file_access_log(ret) ==
    CASE ret.reason = "Access denied: Path is blocked" -> <<AuditLine("WARNING", "BLOCKED")>>
      [] ret.reason = "No allowed paths configured" -> <<>>
      [] ret.reason = "Sensitive file access" -> <<AuditLine("INFO", "SENSITIVE")>>
      [] ret.reason = "Access granted" -> <<AuditLine("INFO", "ALLOWED")>>
      [] OTHER -> <<AuditLine("WARNING", "DENIED")>>

check_web_access_log(ret) ==
    IF ret.allowed
    THEN <<AuditLine("INFO", "WEB_ALLOWED")>>
    ELSE <<AuditLine("WARNING", "WEB_BLOCKED")>>

check_action_permission_log(ret) ==
    CASE ret.reason = "requires user confirmation" -> <<AuditLine("INFO", "ACTION_CONFIRM")>>
      [] ret.reason = "Rate limit exceeded" -> <<AuditLine("WARNING", "RATE_LIMIT")>>
      [] OTHER -> <<AuditLine("INFO", "ACTION_ALLOWED")>>

record_failed_attempt_log(ret) ==
    IF ret THEN <<log_security_event("LOCKOUT")>> ELSE <<>>

InitFiles ==
    /\ \E blocked \in SeqsUpTo(PatternSet, MaxPatterns), allowed \in SeqsUpTo(PatternSet, MaxPatterns) :
            config = [DefaultConfig EXCEPT !.blocked_paths = blocked, !.allowed_paths = allowed]
    /\ request \in {Some(file_path) : file_path \in PathInputs}
    /\ InitRest

CheckFileAccess ==
    /\ request # None
    /\ call' = [op |-> "check_file_access", file_path |-> request[1],
                ret |-> check_file_access(request[1]),
                logged |-> emitted(check_file_access_log(check_file_access(request[1])))]
    /\ request' = None
    /\ UNCHANGED <<config, session_state, policy_state, vault_state, sandbox_state>>

NextFiles == CheckFileAccess

SpecFiles == InitFiles /\ [][NextFiles]_vars

\* C1: deny-first precedence.  Whenever the resolved absolute path of a checked
\* path matches at least one block pattern, check_file_access has denied it,
\* whether or not it matches an allow pattern and wherever the patterns stand
\* in their lists.
C1_DenyFirst ==
    call.op = "check_file_access" =>
        ((\E i \in DOMAIN config.blocked_paths :
              path_matches(abspath(call.file_path), config.blocked_paths[i]))
            => ~call.ret.allowed)

\* C1 witness: a checked path that was denied although the first pattern of the
\* allow list matches it, the block pattern that matches it being another
\* pattern and standing second in the block list.
C1_Witness ==
    /\ call.op = "check_file_access"
    /\ ~call.ret.allowed
    /\ Len(config.blocked_paths) = 2 /\ Len(config.allowed_paths) >= 1
    /\ path_matches(abspath(call.file_path), config.allowed_paths[1])
    /\ ~path_matches(abspath(call.file_path), config.blocked_paths[1])
    /\ path_matches(abspath(call.file_path), config.blocked_paths[2])
    /\ config.blocked_paths[2] # config.allowed_paths[1]

(***************************************************************************)
(* The clock: datetime.now() never runs backwards in the model.            *)
(***************************************************************************)
Tick ==
    /\ now < MaxTime
    /\ now' = now + 1
    /\ UNCHANGED <<config, session_state, rate_limiter, failed_attempts, request, call,
                   permitted, ncalls, failures, vault_state, sandbox_state>>

(***************************************************************************)
(* dict.get(key, default) on the model's dictionaries (functions).         *)
(***************************************************************************)
Get(dict, key, default) == IF key \in DOMAIN dict THEN dict[key] ELSE default

Put(dict, key, value) == (key :> value) @@ dict

(***************************************************************************)
(* PermissionManager._check_rate_limit(action, limit): the window after    *)
(* the entries of one hour ago or older are removed, the verdict, and the  *)
(* window the call leaves behind.  The mutants: no pruning; a count        *)
(* compared with > instead of >=.                                          *)
(***************************************************************************)
hour_ago == now - TicksPerHour

rate_window_unpruned(action) == Get(rate_limiter, action, <<>>)

rate_window(action) ==
    SelectSeq(Get(rate_limiter, action, <<>>), LAMBDA timestamp : timestamp > hour_ago)

rate_within_off_by_one(action, limit) == ~(Len(rate_window(action)) > limit)

rate_within(action, limit) == ~(Len(rate_window(action)) >= limit)

check_rate_limit(action, limit) ==
    IF rate_within(action, limit)
    THEN Put(rate_limiter, action, Append(rate_window(action), now))
    ELSE Put(rate_limiter, action, rate_window(action))

(***************************************************************************)
(* PermissionManager.check_action_permission(action)                       *)
(***************************************************************************)
check_action_permission(action) ==
    IF action \in config.require_confirmation
    THEN [allowed |-> TRUE, reason |-> "requires user confirmation"]
    ELSE IF action \in DOMAIN config.rate_limits
            /\ ~rate_within(action, config.rate_limits[action])
    THEN [allowed |-> FALSE, reason |-> "Rate limit exceeded"]
    ELSE [allowed |-> TRUE, reason |-> "Action permitted"]

ReachesLimiter_despite_confirmation(action) == action \in DOMAIN config.rate_limits

ReachesLimiter(action) ==
    action \notin config.require_confirmation /\ action \in DOMAIN config.rate_limits

RECURSIVE SumOver(_, _)
SumOver(f, S) ==
    IF S = {} THEN 0
    ELSE LET x == CHOOSE y \in S : TRUE IN f[x] + SumOver(f, S \ {x})

CheckActionPermission(action) ==
    LET ret == check_action_permission(action)
        n == Get(ncalls, action, 0) + 1
    IN  /\ ReachesLimiter(action) => SumOver(ncalls, DOMAIN ncalls) < MaxCalls
        /\ call' = [op |-> "check_action_permission", action |-> action, ret |-> ret,
                    time |-> now, n |-> n, before |-> rate_limiter,
                    logged |-> emitted(check_action_permission_log(ret))]
        /\ IF ReachesLimiter(action)
           THEN /\ rate_limiter' = check_rate_limit(action, config.rate_limits[action])
                /\ ncalls' = Put(ncalls, action, n)
                /\ permitted' = IF ret.allowed
                                THEN Put(permitted, action, Append(Get(permitted, action, <<>>), now))
                                ELSE permitted
           ELSE UNCHANGED <<rate_limiter, ncalls, permitted>>
        /\ UNCHANGED <<config, session_state, failed_attempts, now, request, failures, vault_state, sandbox_state>>

(***************************************************************************)
(* The rate limiter: any limits for the rate-limited actions, then calls   *)
(* of check_action_permission as the clock advances.                       *)
(***************************************************************************)
InitRate ==
    /\ \E limits \in [RateLimited -> 0..MaxLimit] :
            config = [DefaultConfig EXCEPT !.rate_limits = limits @@ DefaultConfig.rate_limits]
    /\ request = None
    /\ InitRest

NextRate ==
    \/ Tick
    \/ \E action \in ActionNames : CheckActionPermission(action)

SpecRate == InitRate /\ [][NextRate]_vars

\* C5: rate limiting.  For an action with limit N that is not
\* confirmation-required: each of its first N calls is allowed; its (N+1)th
\* call, made less than one hour after the first, is denied; and a call made
\* when the oldest recorded timestamp is more than one hour old is allowed,
\* however many calls were denied before it.
C5_RateLimit ==
    (call.op = "check_action_permission" /\ ReachesLimiter(call.action)) =>
        LET N == config.rate_limits[call.action]
            before == Get(call.before, call.action, <<>>)
        IN  /\ call.n <= N => call.ret.allowed
            /\ (call.n = N + 1 /\ (N = 0 \/ call.time - permitted[call.action][1] < TicksPerHour))
                   => ~call.ret.allowed
            /\ (before # <<>> /\ call.time - before[1] > TicksPerHour) => call.ret.allowed

\* C5 witness: with a limit N >= 1, a call allowed because the oldest
\* timestamp had aged past one hour, after the window had been full and two
\* calls had been denied.
C5_Witness ==
    /\ call.op = "check_action_permission" /\ ReachesLimiter(call.action)
    /\ config.rate_limits[call.action] >= 1
    /\ call.ret.allowed
    /\ call.n = config.rate_limits[call.action] + 3
    /\ Len(permitted[call.action]) = config.rate_limits[call.action] + 1
    /\ Len(call.before[call.action]) = config.rate_limits[call.action]
    /\ call.time - call.before[call.action][1] > TicksPerHour

\* C6: sliding-window bound.  For every rate-limited action that is not
\* confirmation-required and every instant s, the number of permitted calls
\* in the hour ending at s is at most the configured limit; and a call for
\* one action leaves the window of every other action as it was.
C6_SlidingWindow ==
    /\ \A a \in DOMAIN permitted : \A s \in 0..now :
           Cardinality({k \in DOMAIN permitted[a] :
                           permitted[a][k] > s - TicksPerHour /\ permitted[a][k] <= s})
               <= config.rate_limits[a]
    /\ call.op = "check_action_permission" =>
           \A b \in ActionNames \ {call.action} :
               /\ b \in DOMAIN rate_limiter <=> b \in DOMAIN call.before
               /\ b \in DOMAIN rate_limiter => rate_limiter[b] = call.before[b]

\* C6 witness: an action with limit 2 whose window holds two permitted calls
\* made at different times within one hour, a call for it just denied, while
\* another action's window holds a timestamp too.
C6_Witness ==
    /\ call.op = "check_action_permission" /\ ReachesLimiter(call.action)
    /\ ~call.ret.allowed
    /\ config.rate_limits[call.action] = 2
    /\ Len(rate_limiter[call.action]) = 2
    /\ rate_limiter[call.action][1] # rate_limiter[call.action][2]
    /\ \E b \in DOMAIN rate_limiter : b # call.action /\ rate_limiter[b] # <<>>

(***************************************************************************)
(* PermissionManager.record_failed_attempt(identifier): the record after   *)
(* the new failure is appended and the entries older than twice the        *)
(* lockout duration are removed, and the verdict "now locked out".         *)
(***************************************************************************)
Identifiers == {"u1", "u2"}

recent_failures(attempts) ==
    SelectSeq(attempts, LAMBDA attempt : attempt > now - config.lockout_duration)

record_failed_attempt_list(identifier) ==
    SelectSeq(Append(Get(failed_attempts, identifier, <<>>), now),
              LAMBDA attempt : attempt > now - config.lockout_duration * 2)

record_failed_attempt(identifier) ==
    Len(recent_failures(record_failed_attempt_list(identifier))) >= config.max_failed_attempts

RecordFailedAttempt(identifier) ==
    /\ Len(Get(failures, identifier, <<>>)) < MaxFailures
    /\ failed_attempts' = Put(failed_attempts, identifier, record_failed_attempt_list(identifier))
    /\ failures' = Put(failures, identifier, Append(Get(failures, identifier, <<>>), now))
    /\ call' = [op |-> "record_failed_attempt", identifier |-> identifier,
                ret |-> record_failed_attempt(identifier), time |-> now,
                before |-> failed_attempts,
                logged |-> emitted(record_failed_attempt_log(record_failed_attempt(identifier)))]
    /\ UNCHANGED <<config, session_state, rate_state, now, request, vault_state, sandbox_state>>

(***************************************************************************)
(* PermissionManager.is_locked_out(identifier).  One mutant counts every   *)
(* recorded failure, not only those of the trailing lockout window; the    *)
(* other asks for more than max_failed_attempts failures in the window.    *)
(***************************************************************************)
is_locked_out_no_window(identifier) ==
    IF identifier \notin DOMAIN failed_attempts THEN FALSE
    ELSE Len(failed_attempts[identifier]) >= config.max_failed_attempts

is_locked_out_strict(identifier) ==
    IF identifier \notin DOMAIN failed_attempts THEN FALSE
    ELSE Len(recent_failures(failed_attempts[identifier])) > config.max_failed_attempts

is_locked_out(identifier) ==
    IF identifier \notin DOMAIN failed_attempts THEN FALSE
    ELSE Len(recent_failures(failed_attempts[identifier])) >= config.max_failed_attempts

IsLockedOut(identifier) ==
    /\ call' = [op |-> "is_locked_out", identifier |-> identifier,
                ret |-> is_locked_out(identifier), time |-> now,
                before |-> failed_attempts]
    /\ UNCHANGED <<config, session_state, rate_state, lockout_state, now, request, vault_state, sandbox_state>>

(***************************************************************************)
(* PermissionManager.clear_failed_attempts(identifier)                     *)
(***************************************************************************)
Remove_nothing(dict, key) == dict

Remove(dict, key) == [k \in DOMAIN dict \ {key} |-> dict[k]]

ClearFailedAttempts(identifier) ==
    /\ failed_attempts' = Remove(failed_attempts, identifier)
    /\ failures' = Remove(failures, identifier)
    /\ call' = [op |-> "clear_failed_attempts", identifier |-> identifier,
                ret |-> None, time |-> now, before |-> failed_attempts]
    /\ UNCHANGED <<config, session_state, rate_state, now, request, vault_state, sandbox_state>>

(***************************************************************************)
(* The lockout: any max_failed_attempts and lockout_duration, then         *)
(* failures, queries and clears as the clock advances.                     *)
(***************************************************************************)
InitLockout ==
    /\ \E M \in 1..MaxAttempts, D \in 1..MaxDuration :
            config = [DefaultConfig EXCEPT !.max_failed_attempts = M, !.lockout_duration = D]
    /\ request = None
    /\ InitRest

NextLockout ==
    \/ Tick
    \/ \E identifier \in Identifiers : RecordFailedAttempt(identifier)
    \/ \E identifier \in Identifiers : IsLockedOut(identifier)
    \/ \E identifier \in Identifiers : ClearFailedAttempts(identifier)

SpecLockout == InitLockout /\ [][NextLockout]_vars

\* C7: lockout.  With max_failed_attempts = M and lockout_duration = D,
\* is_locked_out(identifier) returns true whenever at least M of the
\* identifier's failures lie within the trailing D ticks, and false whenever
\* D ticks have elapsed since enough of them that fewer than M remain in the
\* window: the lockout ends by the passing of time alone.
C7_Lockout ==
    call.op = "is_locked_out" =>
        LET recorded == Get(failures, call.identifier, <<>>)
            recent == {k \in DOMAIN recorded : recorded[k] > call.time - config.lockout_duration}
        IN  /\ Cardinality(recent) >= config.max_failed_attempts => call.ret
            /\ Cardinality(recent) < config.max_failed_attempts => ~call.ret

\* C7 witness: is_locked_out answers false for an identifier that has not
\* been cleared and whose record still holds M >= 2 failures, recorded at
\* different times within one lockout window, that locked it out before.
C7_Witness ==
    /\ call.op = "is_locked_out" /\ ~call.ret
    /\ config.max_failed_attempts = 2
    /\ call.identifier \in DOMAIN failed_attempts
    /\ \E k \in 1..(Len(failures[call.identifier]) - 1) :
          /\ failures[call.identifier][k] < failures[call.identifier][k + 1]
          /\ failures[call.identifier][k + 1] - failures[call.identifier][k] < config.lockout_duration

(***************************************************************************)
(* CredentialVault.  The state of a vault object and of its two files, as  *)
(* one record, so that the methods are operators from a state (and the     *)
(* arguments) to the state afterwards and the value returned.  The         *)
(* attribute master_key is None throughout the code and is left out, as is *)
(* the metadata section of the persisted vault.                            *)
(***************************************************************************)
V ==
    [ cipher_suite |-> cipher_suite,
      credentials |-> credentials,
      last_access |-> last_access,
      vault_file |-> vault_file,
      salt_file |-> salt_file,
      vault_mode |-> vault_mode ]

\* os.chmod(path, 0o600): read and write for the owner only.
OwnerOnly == "0600"

\* self.auto_lock_timeout = 1800 seconds; one tick of the vault's clock is 1800 s.
auto_lock_timeout == 1

(***************************************************************************)
(* The cryptography, symbolically.  A key is the pair it was derived from  *)
(* (PBKDF2 is taken to be injective); a Fernet token names the key that    *)
(* made it and decrypts under that key alone (authenticated encryption).   *)
(* os.urandom(16) returns a salt that is in use nowhere: the chance of     *)
(* drawing a salt a second time is disregarded.  The mutant of decrypt     *)
(* skips the authentication.                                               *)
(***************************************************************************)
derive_key(password, salt) == [password |-> password, salt |-> salt]

encrypt(key, data) == [key |-> key, data |-> data]

decrypt_unauthenticated(key, token) == Some(token.data)

decrypt(key, token) == IF token.key = key THEN Some(token.data) ELSE None

urandom(v) ==
    LET live == (IF v.salt_file # None THEN {v.salt_file[1]} ELSE {})
                \cup (IF v.vault_file # None THEN {v.vault_file[1].key.salt} ELSE {})
                \cup (IF v.cipher_suite # None THEN {v.cipher_suite[1].salt} ELSE {})
        free == (1..NumSalts) \ live
    IN  CHOOSE salt \in free : \A other \in free : salt <= other

(***************************************************************************)
(* CredentialVault._save_vault: raises when no cipher suite is held.       *)
(***************************************************************************)
save_vault(v, vault_data) ==
    IF v.cipher_suite = None
    THEN [v |-> v, raised |-> TRUE]
    ELSE [v |-> [v EXCEPT !.vault_file = Some(encrypt(v.cipher_suite[1], vault_data)),
                        !.vault_mode = Some(OwnerOnly)],
          raised |-> FALSE]

(***************************************************************************)
(* CredentialVault.create_vault: the salt is drawn, used for the key and   *)
(* stored inside the encrypted vault only; the salt file is not written.   *)
(***************************************************************************)
create_vault(v, master_password) ==
    LET salt == urandom(v)
        key == derive_key(master_password, salt)
    IN  [v |-> [v EXCEPT !.cipher_suite = Some(key),
                         !.vault_file = Some(encrypt(key, [credentials |-> <<>>])),
                         !.vault_mode = Some(OwnerOnly),
                         !.credentials = <<>>,
                         !.last_access = Some(now)],
         ret |-> TRUE]

(***************************************************************************)
(* CredentialVault._try_decrypt_vault: the salt is read from the salt      *)
(* file, or drawn and written there when the file is absent.               *)
(***************************************************************************)
try_decrypt_vault(v, master_password) ==
    LET salt == IF v.salt_file # None THEN v.salt_file[1] ELSE urandom(v)
        v1 == [v EXCEPT !.salt_file = Some(salt)]
        key == derive_key(master_password, salt)
        decrypted_data == decrypt(key, v.vault_file[1])
    IN  IF decrypted_data # None
        THEN [v |-> [v1 EXCEPT !.cipher_suite = Some(key)], ret |-> decrypted_data]
        ELSE [v |-> v1, ret |-> None]

(***************************************************************************)
(* CredentialVault._unlock_vault (and unlock_vault, which only calls it)   *)
(***************************************************************************)
unlock_vault_recreates(v, master_password) == create_vault(v, master_password)

unlock_vault(v, master_password) ==
    IF v.vault_file = None
    THEN create_vault(v, master_password)
    ELSE LET tried == try_decrypt_vault(v, master_password)
         IN  IF tried.ret = None
             THEN [v |-> tried.v, ret |-> FALSE]
             ELSE LET vault_data == tried.ret[1]
                      v2 == [tried.v EXCEPT !.credentials = vault_data.credentials,
                                            !.last_access = Some(now)]
                  IN  [v |-> save_vault(v2, vault_data).v, ret |-> TRUE]

(***************************************************************************)
(* CredentialVault.lock_vault                                              *)
(***************************************************************************)
\* The mutant of lock_vault leaves the credential map in memory.
lock_vault_keeps_credentials(v) ==
    [v EXCEPT !.cipher_suite = None, !.last_access = None]

lock_vault(v) ==
    [v EXCEPT !.cipher_suite = None, !.credentials = <<>>, !.last_access = None]

(***************************************************************************)
(* CredentialVault.is_locked: locks the vault itself when it has been idle *)
(* for longer than the timeout.  The mutant forgets the cipher-suite test. *)
(***************************************************************************)
is_locked_never_expires(v) ==
    [v |-> v, ret |-> v.cipher_suite = None]

is_locked_timeout_only(v) ==
    IF /\ v.last_access # None
       /\ auto_lock_timeout > 0
       /\ now - v.last_access[1] > auto_lock_timeout
    THEN [v |-> lock_vault(v), ret |-> TRUE]
    ELSE [v |-> v, ret |-> FALSE]

is_locked(v) ==
    IF v.cipher_suite = None
    THEN [v |-> v, ret |-> TRUE]
    ELSE IF /\ v.last_access # None
            /\ auto_lock_timeout > 0
            /\ now - v.last_access[1] > auto_lock_timeout
    THEN [v |-> lock_vault(v), ret |-> TRUE]
    ELSE [v |-> v, ret |-> FALSE]

(***************************************************************************)
(* CredentialVault.store_credential                                        *)
(***************************************************************************)
\* The mutant of store_credential writes only the entry it was given.
store_credential_entry_only(v, service, identifier, credential_data) ==
    LET locked == is_locked(v)
    IN  IF locked.ret THEN [v |-> locked.v, ret |-> FALSE]
        ELSE LET credential_entry ==
                     [ data |-> credential_data,
                       created |-> now,
                       modified |-> now,
                       access_count |-> 0,
                       last_accessed |-> None ]
                 creds == Put(v.credentials, service,
                              Put(Get(v.credentials, service, <<>>), identifier, credential_entry))
                 v1 == [v EXCEPT !.last_access = Some(now), !.credentials = creds]
                 saved == save_vault(v1, [credentials |->
                                             Put(<<>>, service, Put(<<>>, identifier, credential_entry))])
             IN  [v |-> saved.v, ret |-> ~saved.raised]

store_credential(v, service, identifier, credential_data) ==
    LET locked == is_locked(v)
    IN  IF locked.ret THEN [v |-> locked.v, ret |-> FALSE]
        ELSE LET credential_entry ==
                     [ data |-> credential_data,
                       created |-> now,
                       modified |-> now,
                       access_count |-> 0,
                       last_accessed |-> None ]
                 creds == Put(v.credentials, service,
                              Put(Get(v.credentials, service, <<>>), identifier, credential_entry))
                 v1 == [v EXCEPT !.last_access = Some(now), !.credentials = creds]
                 saved == save_vault(v1, [credentials |-> creds])
             IN  [v |-> saved.v, ret |-> ~saved.raised]

(***************************************************************************)
(* CredentialVault.retrieve_credential; identifier is None or Some(name).  *)
(* The access count is bumped in memory; nothing is written to the file.   *)
(* The mutant returns the entry without counting the access.               *)
(***************************************************************************)
retrieve_credential_uncounted(v, service, identifier) ==
    LET locked == is_locked(v)
    IN  IF locked.ret THEN [v |-> locked.v, ret |-> None]
        ELSE LET v1 == [v EXCEPT !.last_access = Some(now)]
             IN  IF service \notin DOMAIN v.credentials THEN [v |-> v1, ret |-> None]
                 ELSE IF identifier = None
                 THEN [v |-> v1, ret |-> Some(v.credentials[service])]
                 ELSE IF identifier[1] \notin DOMAIN v.credentials[service]
                 THEN [v |-> v1, ret |-> None]
                 ELSE [v |-> v1, ret |-> Some(v.credentials[service][identifier[1]])]

retrieve_credential(v, service, identifier) ==
    LET locked == is_locked(v)
    IN  IF locked.ret THEN [v |-> locked.v, ret |-> None]
        ELSE LET v1 == [v EXCEPT !.last_access = Some(now)]
             IN  IF service \notin DOMAIN v.credentials THEN [v |-> v1, ret |-> None]
                 ELSE IF identifier = None
                 THEN [v |-> v1, ret |-> Some(v.credentials[service])]
                 ELSE IF identifier[1] \notin DOMAIN v.credentials[service]
                 THEN [v |-> v1, ret |-> None]
                 ELSE LET credential ==
                              [v.credentials[service][identifier[1]] EXCEPT
                                  !.access_count = @ + 1, !.last_accessed = Some(now)]
                      IN  [v |-> [v1 EXCEPT !.credentials[service][identifier[1]] = credential],
                           ret |-> Some(credential)]

(***************************************************************************)
(* CredentialVault.delete_credential; identifier is None or Some(name).    *)
(***************************************************************************)
\* The mutant of delete_credential leaves the key of a service whose last
\* identifier was removed.
delete_credential_keeps_service(v, service, identifier) ==
    LET locked == is_locked(v)
    IN  IF locked.ret THEN [v |-> locked.v, ret |-> FALSE]
        ELSE IF service \notin DOMAIN v.credentials THEN [v |-> v, ret |-> FALSE]
        ELSE LET creds ==
                     IF identifier = None THEN Remove(v.credentials, service)
                     ELSE IF identifier[1] \in DOMAIN v.credentials[service]
                     THEN Put(v.credentials, service, Remove(v.credentials[service], identifier[1]))
                     ELSE v.credentials
                 saved == save_vault([v EXCEPT !.credentials = creds], [credentials |-> creds])
             IN  [v |-> saved.v, ret |-> ~saved.raised]

delete_credential(v, service, identifier) ==
    LET locked == is_locked(v)
    IN  IF locked.ret THEN [v |-> locked.v, ret |-> FALSE]
        ELSE IF service \notin DOMAIN v.credentials THEN [v |-> v, ret |-> FALSE]
        ELSE LET creds ==
                     IF identifier = None THEN Remove(v.credentials, service)
                     ELSE IF identifier[1] \in DOMAIN v.credentials[service]
                     THEN LET rest == Remove(v.credentials[service], identifier[1])
                          IN  IF DOMAIN rest = {} THEN Remove(v.credentials, service)
                              ELSE Put(v.credentials, service, rest)
                     ELSE v.credentials
                 saved == save_vault([v EXCEPT !.credentials = creds], [credentials |-> creds])
             IN  [v |-> saved.v, ret |-> ~saved.raised]

(***************************************************************************)
(* CredentialVault.list_services, list_identifiers (as sets: the order of  *)
(* the keys is not modelled) and get_vault_stats                           *)
(***************************************************************************)
list_services(v) ==
    LET locked == is_locked(v)
    IN  IF locked.ret THEN [v |-> locked.v, ret |-> {}]
        ELSE [v |-> v, ret |-> DOMAIN v.credentials]

list_identifiers(v, service) ==
    LET locked == is_locked(v)
    IN  IF locked.ret \/ service \notin DOMAIN locked.v.credentials
        THEN [v |-> locked.v, ret |-> {}]
        ELSE [v |-> v, ret |-> DOMAIN v.credentials[service]]

\* The mutant of get_vault_stats reports the entries themselves.
get_vault_stats_with_entries(v) ==
    LET locked == is_locked(v)
    IN  IF locked.ret THEN [v |-> locked.v, ret |-> [status |-> "locked"]]
        ELSE [v |-> v,
              ret |-> [ status |-> "unlocked",
                        services |-> Cardinality(DOMAIN v.credentials),
                        total_credentials |-> v.credentials,
                        last_access |-> v.last_access,
                        auto_lock_timeout |-> auto_lock_timeout ]]

get_vault_stats(v) ==
    LET locked == is_locked(v)
    IN  IF locked.ret THEN [v |-> locked.v, ret |-> [status |-> "locked"]]
        ELSE [v |-> v,
              ret |-> [ status |-> "unlocked",
                        services |-> Cardinality(DOMAIN v.credentials),
                        total_credentials |->
                            Cardinality({<<s, i>> \in (DOMAIN v.credentials) \X UNION {DOMAIN v.credentials[x] : x \in DOMAIN v.credentials} :
                                            i \in DOMAIN v.credentials[s]}),
                        last_access |-> v.last_access,
                        auto_lock_timeout |-> auto_lock_timeout ]]

(***************************************************************************)
(* CredentialVault.change_master_password: the current password is used    *)
(* only to unlock a locked vault.                                          *)
(***************************************************************************)
\* The mutant of change_master_password does not write the new salt.
change_master_password_keeps_salt(v, current_password, new_password) ==
    LET locked == is_locked(v)
        opened == IF locked.ret THEN unlock_vault(locked.v, current_password)
                  ELSE [v |-> v, ret |-> TRUE]
    IN  IF ~opened.ret THEN [v |-> opened.v, ret |-> FALSE]
        ELSE LET salt == urandom(opened.v)
                 new_key == derive_key(new_password, salt)
             IN  [v |-> [opened.v EXCEPT
                            !.vault_file = Some(encrypt(new_key, [credentials |-> opened.v.credentials])),
                            !.vault_mode = Some(OwnerOnly),
                            !.cipher_suite = Some(new_key)],
                  ret |-> TRUE]

change_master_password(v, current_password, new_password) ==
    LET locked == is_locked(v)
        opened == IF locked.ret THEN unlock_vault(locked.v, current_password)
                  ELSE [v |-> v, ret |-> TRUE]
    IN  IF ~opened.ret THEN [v |-> opened.v, ret |-> FALSE]
        ELSE LET salt == urandom(opened.v)
                 new_key == derive_key(new_password, salt)
             IN  [v |-> [opened.v EXCEPT
                            !.salt_file = Some(salt),
                            !.vault_file = Some(encrypt(new_key, [credentials |-> opened.v.credentials])),
                            !.vault_mode = Some(OwnerOnly),
                            !.cipher_suite = Some(new_key)],
                  ret |-> TRUE]

(***************************************************************************)
(* The calls on a vault: each sets the vault's state to what the method    *)
(* leaves and records the call, the value returned and whether the vault   *)
(* held no key when the call was made.                                     *)
(***************************************************************************)
Passwords == {"p", "q"}

Services == {"mail"}

Ids == {"a", "b"}

Payloads == {1}

OptIds == {None} \cup {Some(identifier) : identifier \in Ids}

VaultCall(op, args, result) ==
    /\ cipher_suite' = result.v.cipher_suite
    /\ credentials' = result.v.credentials
    /\ last_access' = result.v.last_access
    /\ vault_file' = result.v.vault_file
    /\ vault_mode' = result.v.vault_mode
    /\ salt_file' = result.v.salt_file
    /\ call' = [op |-> op, args |-> args, ret |-> result.ret, locked |-> cipher_suite = None]
    /\ UNCHANGED <<config, session_state, policy_state, request, sandbox_state>>

UnlockVault(master_password) ==
    VaultCall("unlock_vault", [master_password |-> master_password],
              unlock_vault(V, master_password))

LockVault ==
    VaultCall("lock_vault", <<>>, [v |-> lock_vault(V), ret |-> None])

IsLocked ==
    VaultCall("is_locked", <<>>, is_locked(V))

StoreCredential(service, identifier, credential_data) ==
    VaultCall("store_credential",
              [service |-> service, identifier |-> identifier, credential_data |-> credential_data],
              store_credential(V, service, identifier, credential_data))

RetrieveCredential(service, identifier) ==
    /\ \A i \in Ids :
          (identifier = Some(i) /\ service \in DOMAIN credentials /\ i \in DOMAIN credentials[service])
              => credentials[service][i].access_count < MaxAccess
    /\ VaultCall("retrieve_credential", [service |-> service, identifier |-> identifier],
                 retrieve_credential(V, service, identifier))

DeleteCredential(service, identifier) ==
    VaultCall("delete_credential", [service |-> service, identifier |-> identifier],
              delete_credential(V, service, identifier))

ListServices ==
    VaultCall("list_services", <<>>, list_services(V))

ListIdentifiers(service) ==
    VaultCall("list_identifiers", [service |-> service], list_identifiers(V, service))

GetVaultStats ==
    VaultCall("get_vault_stats", <<>>, get_vault_stats(V))

ChangeMasterPassword(current_password, new_password) ==
    VaultCall("change_master_password",
              [current_password |-> current_password, new_password |-> new_password],
              change_master_password(V, current_password, new_password))

VaultTick ==
    /\ now < MaxVaultTime
    /\ now' = now + 1
    /\ UNCHANGED <<config, session_state, rate_state, lockout_state, request, call, vault_state, sandbox_state>>

(***************************************************************************)
(* The vault: constructed without a master password on a path where no     *)
(* file exists yet, then any calls as the clock advances.                  *)
(***************************************************************************)
InitVault ==
    /\ config = DefaultConfig
    /\ request = None
    /\ InitRest

NextVault ==
    \/ VaultTick
    \/ \E master_password \in Passwords : UnlockVault(master_password)
    \/ LockVault
    \/ IsLocked
    \/ \E service \in Services, identifier \in Ids, credential_data \in Payloads :
            StoreCredential(service, identifier, credential_data)
    \/ \E service \in Services, identifier \in OptIds : RetrieveCredential(service, identifier)
    \/ \E service \in Services, identifier \in OptIds : DeleteCredential(service, identifier)
    \/ ListServices
    \/ \E service \in Services : ListIdentifiers(service)
    \/ GetVaultStats
    \/ \E current_password \in Passwords, new_password \in Passwords :
            ChangeMasterPassword(current_password, new_password)

SpecVault == InitVault /\ [][NextVault]_vars

(***************************************************************************)
(* A step of the vault that is a call (the clock stands still) of one of   *)
(* the operations named.                                                   *)
(***************************************************************************)
RefusingOps ==
    { "store_credential", "delete_credential", "retrieve_credential",
      "list_services", "list_identifiers", "get_vault_stats" }

Refusal(op) ==
    CASE op \in {"store_credential", "delete_credential"} -> FALSE
      [] op = "retrieve_credential" -> None
      [] op \in {"list_services", "list_identifiers"} -> {}
      [] op = "get_vault_stats" -> [status |-> "locked"]

\* C2: an unlock of a vault that holds no key and whose file exists, with a
\* password other than the one the file was encrypted under, returns false
\* and leaves the vault without a key and with an empty credential map.
C2_WrongPassword ==
    [][ ( /\ now' = now
          /\ call'.op = "unlock_vault"
          /\ cipher_suite = None
          /\ vault_file # None
          /\ call'.args.master_password # vault_file[1].key.password )
        => ( /\ call'.ret = FALSE
             /\ cipher_suite' = None
             /\ credentials' = <<>> ) ]_vars

\* C2 happens: a locked vault whose file holds a stored credential has just
\* refused a password that is not the file's.
C2_Witness ==
    /\ call.op = "unlock_vault" /\ call.locked /\ call.ret = FALSE
    /\ vault_file # None
    /\ call.args.master_password # vault_file[1].key.password
    /\ vault_file[1].data.credentials # <<>>

\* C3: an unlock of a locked vault whose file holds stored credentials, with
\* the password the file was encrypted under, returns true and restores the
\* credentials the file holds, so that what was stored before lock_vault is
\* retrieved again.
C3_RoundTrip ==
    ( /\ call.op = "unlock_vault" /\ call.locked
      /\ vault_file # None
      /\ vault_file[1].data.credentials # <<>>
      /\ call.args.master_password = vault_file[1].key.password )
    => ( /\ call.ret = TRUE
         /\ cipher_suite # None
         /\ credentials = vault_file[1].data.credentials )

\* C4: on a vault that holds no key, store, delete, retrieve, the two
\* listings and the statistics return their refusal value and change
\* neither the credential map in memory nor the two files.
C4_LockedRefuses ==
    [][ ( /\ now' = now
          /\ cipher_suite = None
          /\ call'.op \in RefusingOps )
        => ( /\ call'.ret = Refusal(call'.op)
             /\ cipher_suite' = None
             /\ credentials' = credentials
             /\ vault_file' = vault_file
             /\ salt_file' = salt_file ) ]_vars

\* C4 happens: a store was refused by a locked vault whose file holds a
\* credential stored before it was locked.
C4_Witness ==
    /\ call.op = "store_credential" /\ call.locked /\ call.ret = FALSE
    /\ cipher_suite = None
    /\ vault_file # None
    /\ vault_file[1].data.credentials # <<>>

(***************************************************************************)
(* SandboxEnvironment.  One object, used from one thread: while            *)
(* execute_sandboxed_command waits for its process nothing else is called. *)
(* tempfile.mkdtemp returns a directory that does not exist yet; failures  *)
(* of the file system (mkdtemp, makedirs, rmtree) are not modelled.        *)
(***************************************************************************)
Digits == <<"1", "2", "3", "4", "5", "6", "7", "8", "9">>

TempDir(k) == <<"/", "t", Digits[k]>>

TempDirs == {TempDir(k) : k \in 1..MaxDirs}

(***************************************************************************)
(* SandboxEnvironment._validate_command, called with a sandbox active:     *)
(* sandbox_dir is the directory, command a list of strings.                *)
(***************************************************************************)
blocked_commands ==
    { <<"r", "m">>, <<"r", "m", "d", "i", "r">>, <<"d", "e", "l">>, <<"f", "o", "r", "m", "a", "t">>,
      <<"d", "d">>, <<"f", "d", "i", "s", "k">>, <<"m", "k", "f", "s">>, <<"s", "u", "d", "o">>,
      <<"s", "u">>, <<"c", "h", "m", "o", "d">>, <<"c", "h", "o", "w", "n">>, <<"c", "u", "r", "l">>,
      <<"w", "g", "e", "t">>, <<"n", "c">>, <<"n", "e", "t", "c", "a", "t">>, <<"s", "s", "h">>,
      <<"s", "c", "p">>, <<"r", "s", "y", "n", "c">>, <<"c", "r", "o", "n", "t", "a", "b">>, <<"a", "t">>,
      <<"s", "y", "s", "t", "e", "m", "c", "t", "l">>, <<"s", "e", "r", "v", "i", "c", "e">> }

allowed_commands ==
    { <<"p", "y", "t", "h", "o", "n", "3">>, <<"p", "y", "t", "h", "o", "n">>, <<"n", "o", "d", "e">>, <<"n", "p", "m">>,
      <<"l", "s">>, <<"c", "a", "t">>, <<"e", "c", "h", "o">>, <<"p", "w", "d">>,
      <<"c", "d">>, <<"m", "k", "d", "i", "r">>, <<"t", "o", "u", "c", "h">>, <<"c", "p">>,
      <<"m", "v">>, <<"g", "r", "e", "p">>, <<"f", "i", "n", "d">>, <<"s", "o", "r", "t">>,
      <<"h", "e", "a", "d">>, <<"t", "a", "i", "l">> }

validate_command(dir, command) ==
    IF command = <<>> THEN FALSE
    ELSE LET base_command == basename(command[1])
         IN  IF base_command \in blocked_commands THEN FALSE
             ELSE \/ base_command \in allowed_commands
                  \/ startswith(command[1], dir)
                  \/ endswith(base_command, <<".", "p", "y">>)
                  \/ endswith(base_command, <<".", "s", "h">>)

(***************************************************************************)
(* execute_sandboxed_command's test of the command before anything is      *)
(* spawned; the mutant lets every command through.                         *)
(***************************************************************************)
command_blocked_never(dir, command) == FALSE

command_blocked(dir, command) == ~validate_command(dir, command)

(***************************************************************************)
(* SandboxEnvironment._cleanup_sandbox, as the values it leaves: nothing   *)
(* when no sandbox is active; otherwise every registered process is        *)
(* terminated, the directory sandbox_dir names is removed, sandbox_dir is  *)
(* None and the registry empty.                                            *)
(***************************************************************************)
InRegistry(pid) == \E i \in 1..Len(active_processes) : active_processes[i] = pid

\* The mutant of _cleanup_sandbox forgets to reset sandbox_dir.
cleanup_sandbox_keeps_dir ==
    [ sandbox_dir |-> sandbox_dir,
      active_processes |-> <<>>,
      directories |-> IF sandbox_dir = None THEN directories ELSE directories \ {sandbox_dir[1]},
      processes |-> processes ]

cleanup_sandbox ==
    IF sandbox_dir = None
    THEN [ sandbox_dir |-> sandbox_dir, active_processes |-> active_processes,
           directories |-> directories, processes |-> processes ]
    ELSE [ sandbox_dir |-> None,
           active_processes |-> <<>>,
           directories |-> directories \ {sandbox_dir[1]},
           processes |-> [pid \in DOMAIN processes |->
                             IF InRegistry(pid) /\ processes[pid] = "running"
                             THEN "terminated" ELSE processes[pid]] ]

(***************************************************************************)
(* create_sandbox, a context manager: entering makes a directory and       *)
(* stores it in sandbox_dir (whatever was there); leaving, normally or by  *)
(* an exception raised in the body, runs _cleanup_sandbox.                 *)
(***************************************************************************)
EnterScope(k) ==
    /\ monitored = None
    /\ scopes[k].pc = "out"
    /\ \E dir \in TempDirs \ directories :
          /\ sandbox_dir' = Some(dir)
          /\ directories' = directories \cup {dir}
          /\ scopes' = [scopes EXCEPT ![k] = [pc |-> "in", dir |-> Some(dir)]]
          /\ call' = [op |-> "create_sandbox:enter", scope |-> k, dir |-> dir]
    /\ UNCHANGED <<config, session_state, policy_state, request, vault_state, active_processes, processes, monitored>>

ExitScope(k, exception) ==
    /\ monitored = None
    /\ scopes[k].pc = "in"
    /\ sandbox_dir' = cleanup_sandbox.sandbox_dir
    /\ active_processes' = cleanup_sandbox.active_processes
    /\ directories' = cleanup_sandbox.directories
    /\ processes' = cleanup_sandbox.processes
    /\ scopes' = [scopes EXCEPT ![k] = [pc |-> "out", dir |-> None]]
    /\ call' = [op |-> "create_sandbox:exit", scope |-> k, dir |-> scopes[k].dir[1],
                exception |-> exception]
    /\ UNCHANGED <<config, session_state, policy_state, request, vault_state, monitored>>

(***************************************************************************)
(* The commands tried, given the directory of the sandbox (the first       *)
(* temporary directory when none is active): no argv at all, and one-word  *)
(* commands whose word is a bare name or a name in a directory: inside the *)
(* sandbox directory, in a sibling whose name extends the sandbox          *)
(* directory's, reached through ".." from the sandbox directory, or        *)
(* elsewhere.  Names: one allowed, one blocked, one unknown, and the       *)
(* unknown one with each script extension.                                 *)
(***************************************************************************)
CommandNames ==
    { <<"l", "s">>, <<"r", "m">>, <<"x">>, <<"x", ".", "p", "y">>, <<"x", ".", "s", "h">> }

CommandPlaces(dir) ==
    { <<>>, <<"/", "b", "/">>,
      dir \o <<"/">>, dir \o <<"0", "/">>, dir \o <<"/", ".", ".", "/", "b", "/">> }

CommandsIn(dir) ==
    {<<>>} \cup { <<place \o name>> : place \in CommandPlaces(dir), name \in CommandNames }

Commands == CommandsIn(IF sandbox_dir = None THEN TempDir(1) ELSE sandbox_dir[1])

(***************************************************************************)
(* A direct call of _validate_command while a sandbox is active.           *)
(***************************************************************************)
ValidateCommand(command) ==
    /\ monitored = None
    /\ sandbox_dir # None
    /\ call' = [op |-> "_validate_command", command |-> command,
                ret |-> validate_command(sandbox_dir[1], command)]
    /\ UNCHANGED <<config, session_state, policy_state, request, vault_state, sandbox_state>>

(***************************************************************************)
(* execute_sandboxed_command up to the point where it waits for the        *)
(* process.  Without a sandbox it raises RuntimeError; a command the       *)
(* policy blocks is answered at once; if Popen raises, the handler's       *)
(* return is replaced by the UnboundLocalError of the finally clause,      *)
(* which reads the variable process that was never bound.                  *)
(***************************************************************************)
PolicyViolation ==
    [success |-> FALSE, stdout |-> "", stderr |-> "Command blocked by security policy"]

ExecuteSandboxedCommand(command, popen_raises) ==
    /\ monitored = None
    /\ IF sandbox_dir = None
       THEN /\ call' = [op |-> "execute_sandboxed_command", command |-> command,
                        raised |-> "RuntimeError", ret |-> None]
            /\ UNCHANGED sandbox_state
       ELSE IF command_blocked(sandbox_dir[1], command)
       THEN /\ call' = [op |-> "execute_sandboxed_command", command |-> command,
                        raised |-> "", ret |-> Some(PolicyViolation)]
            /\ UNCHANGED sandbox_state
       ELSE IF popen_raises
       THEN /\ call' = [op |-> "execute_sandboxed_command", command |-> command,
                        raised |-> "UnboundLocalError", ret |-> None]
            /\ UNCHANGED sandbox_state
       ELSE /\ Len(processes) < MaxProcs
            /\ LET process == Len(processes) + 1
               IN  /\ processes' = Append(processes, "running")
                   /\ active_processes' = Append(active_processes, process)
                   /\ monitored' = Some(process)
            /\ call' = [op |-> "execute_sandboxed_command", command |-> command,
                        raised |-> "", ret |-> None]
            /\ UNCHANGED <<sandbox_dir, directories, scopes>>
    /\ UNCHANGED <<config, session_state, policy_state, request, vault_state>>

(***************************************************************************)
(* _monitor_process and the finally clause of execute_sandboxed_command.   *)
(* communicate returns when the process has exited: the result carries the *)
(* return code's verdict and whatever the process wrote to its standard    *)
(* error, which the process chooses.  When the timeout expires the process *)
(* is killed and reaped and standard error is replaced by TimeoutReason.   *)
(* When communicate raises another Exception (output that is not text) the *)
(* process is killed and the exception's text returned.  A BaseException   *)
(* raised while communicate waits (KeyboardInterrupt) is caught by neither *)
(* handler: the finally clause takes the process out of the registry and   *)
(* the exception reaches the caller with the process still running.        *)
(***************************************************************************)
TimeoutReason == "Command timed out"

ProcessStderr == {"stderr", TimeoutReason}

Returned(process, status, event, result) ==
    /\ processes' = [processes EXCEPT ![process] = status]
    /\ active_processes' = SelectSeq(active_processes, LAMBDA other : other # process)
    /\ monitored' = None
    /\ call' = [op |-> call.op, command |-> call.command, raised |-> "",
                ret |-> Some(result), event |-> event]
    /\ UNCHANGED <<config, session_state, policy_state, request, vault_state, sandbox_dir, directories, scopes>>

ProcessExits(returncode, stderr) ==
    /\ monitored # None
    /\ Returned(monitored[1], "exited", "exit",
                [success |-> returncode = 0, stdout |-> "stdout", stderr |-> stderr])

ProcessTimesOut ==
    /\ monitored # None
    /\ Returned(monitored[1], "killed", "timeout",
                [success |-> FALSE, stdout |-> "stdout", stderr |-> TimeoutReason])

MonitoringFails ==
    /\ monitored # None
    /\ Returned(monitored[1], "killed", "error",
                [success |-> FALSE, stdout |-> "", stderr |-> "UnicodeDecodeError"])

MonitoringInterrupted ==
    /\ monitored # None
    /\ active_processes' = SelectSeq(active_processes, LAMBDA other : other # monitored[1])
    /\ monitored' = None
    /\ call' = [op |-> call.op, command |-> call.command, raised |-> "KeyboardInterrupt",
                ret |-> None, event |-> "interrupt"]
    /\ UNCHANGED <<config, session_state, policy_state, request, vault_state, sandbox_dir, directories, processes, scopes>>

(***************************************************************************)
(* The sandbox: constructed, then scopes entered and left and commands     *)
(* validated and executed in any order.                                    *)
(***************************************************************************)
InitSandbox ==
    /\ config = DefaultConfig
    /\ request = None
    /\ InitRest

NextSandbox ==
    \/ \E k \in 1..MaxScopes : EnterScope(k)
    \/ \E k \in 1..MaxScopes, exception \in BOOLEAN : ExitScope(k, exception)
    \/ \E command \in Commands : ValidateCommand(command)
    \/ \E command \in Commands, popen_raises \in BOOLEAN :
            ExecuteSandboxedCommand(command, popen_raises)
    \/ \E returncode \in {0, 1}, stderr \in ProcessStderr : ProcessExits(returncode, stderr)
    \/ ProcessTimesOut

SpecSandbox == InitSandbox /\ [][NextSandbox]_vars

(***************************************************************************)
(* What the claims about the sandbox speak of: a path lies inside a        *)
(* directory when, made absolute and normalised, it is below it; a name    *)
(* has a recognised script extension when it ends in ".py" or ".sh".       *)
(***************************************************************************)
LiesInside(path, dir) == startswith(abspath(path), dir \o <<"/">>)

HasScriptExtension(name) ==
    endswith(name, <<".", "p", "y">>) \/ endswith(name, <<".", "s", "h">>)

PolicyPermits(dir, command) ==
    /\ command # <<>>
    /\ basename(command[1]) \notin blocked_commands
    /\ \/ basename(command[1]) \in allowed_commands
       \/ LiesInside(command[1], dir)
       \/ HasScriptExtension(basename(command[1]))

\* C8: _validate_command permits argv exactly when the basename of argv[0]
\* is not deny-listed and is allow-listed, or argv[0] lies inside the sandbox
\* directory, or the basename has a script extension; no argv is rejected.
C8_CommandPolicy ==
    (call.op = "_validate_command" /\ sandbox_dir # None)
        => (call.ret <=> PolicyPermits(sandbox_dir[1], call.command))

\* C9: execute_sandboxed_command of a command the policy rejects, with a
\* sandbox active, returns success = false with the policy-violation reason,
\* creates no process and leaves the registry of active processes as it was.
C9_RejectedNotSpawned ==
    [][ ( /\ monitored = None
          /\ sandbox_dir # None
          /\ call'.op = "execute_sandboxed_command"
          /\ ~validate_command(sandbox_dir[1], call'.command) )
        => ( /\ call'.raised = ""
             /\ call'.ret = Some(PolicyViolation)
             /\ processes' = processes
             /\ active_processes' = active_processes
             /\ monitored' = None ) ]_vars

\* C9 happens: a deny-listed command placed inside the active sandbox has
\* just been refused.
C9_Witness ==
    /\ call.op = "execute_sandboxed_command"
    /\ sandbox_dir # None
    /\ ~validate_command(sandbox_dir[1], call.command)
    /\ call.command # <<>>
    /\ LiesInside(call.command[1], sandbox_dir[1])
    /\ call.ret = Some(PolicyViolation)

\* C10: once a create_sandbox scope has exited, normally or by an exception,
\* the directory it made no longer exists, sandbox_dir is None and the
\* registry of active processes is empty.
C10_Teardown ==
    call.op = "create_sandbox:exit"
        => ( /\ call.dir \notin directories
             /\ sandbox_dir = None
             /\ active_processes = <<>> )

\* C11: is_locked called on a vault that holds a key and was last accessed
\* more than auto_lock_timeout ago returns true, discards the key and
\* empties the credential map in memory, which leaves the vault locked.
C11_AutoLock ==
    [][ ( /\ now' = now
          /\ call'.op = "is_locked"
          /\ cipher_suite # None
          /\ last_access # None
          /\ now - last_access[1] > auto_lock_timeout )
        => ( /\ call'.ret = TRUE
             /\ cipher_suite' = None
             /\ credentials' = <<>>
             /\ last_access' = None ) ]_vars

\* C11 happens: is_locked has just locked an idle vault that held a key and
\* whose file holds a stored credential.
C11_Witness ==
    /\ call.op = "is_locked" /\ ~call.locked /\ call.ret = TRUE
    /\ cipher_suite = None /\ credentials = <<>>
    /\ vault_file # None
    /\ vault_file[1].data.credentials # <<>>

\* The password a call of unlock_vault or change_master_password supplies.
SuppliedPassword(c) ==
    IF c.op = "unlock_vault" THEN c.args.master_password ELSE c.args.current_password

\* C12: before any call the vault holds no key; a vault whose file exists
\* gets a key only by unlock_vault or change_master_password called with
\* the password the file is encrypted under; a vault loses its key only by
\* lock_vault or when it has been idle for longer than auto_lock_timeout.
C12_Transitions ==
    /\ cipher_suite = None
    /\ [][ /\ ( /\ now' = now /\ cipher_suite = None /\ cipher_suite' # None
                /\ vault_file # None )
              => ( /\ call'.op \in {"unlock_vault", "change_master_password"}
                   /\ SuppliedPassword(call') = vault_file[1].key.password )
           /\ ( /\ now' = now /\ cipher_suite # None /\ cipher_suite' = None )
              => ( \/ call'.op = "lock_vault"
                   \/ now - last_access[1] > auto_lock_timeout ) ]_vars

\* C12 happens: a locked vault whose file holds a stored credential has just
\* been unlocked.
C12_Witness ==
    /\ call.op = "unlock_vault" /\ call.locked /\ call.ret = TRUE
    /\ cipher_suite # None
    /\ credentials # <<>>

\* C14: check_file_access allows a path only if the path matches a pattern
\* of allowed_paths and none of blocked_paths; in particular it denies every
\* path when allowed_paths is empty.
C14_DefaultDeny ==
    (call.op = "check_file_access" /\ call.ret.allowed)
        => ( /\ FirstMatch(abspath(call.file_path), config.allowed_paths) # 0
             /\ FirstMatch(abspath(call.file_path), config.blocked_paths) = 0 )

\* C14 happens: with some path allowed, a path that matches no pattern of
\* either list has been denied.
C14_Witness ==
    /\ call.op = "check_file_access" /\ ~call.ret.allowed
    /\ config.allowed_paths # <<>>
    /\ FirstMatch(abspath(call.file_path), config.allowed_paths) = 0
    /\ FirstMatch(abspath(call.file_path), config.blocked_paths) = 0

\* C15: check_action_permission of an action that requires confirmation
\* returns allowed with the confirmation reason and leaves the rate-limit
\* table as it was, also when the action has a configured rate limit.
C15_ConfirmationNotLimited ==
    (call.op = "check_action_permission" /\ call.action \in config.require_confirmation)
        => ( /\ call.ret = [allowed |-> TRUE, reason |-> "requires user confirmation"]
             /\ rate_limiter = call.before )

\* C15 happens: an action that requires confirmation and has a rate limit
\* has been checked at a time when calls of other actions are on record.
C15_Witness ==
    /\ call.op = "check_action_permission"
    /\ call.action \in config.require_confirmation
    /\ call.action \in DOMAIN config.rate_limits
    /\ call.ret.allowed
    /\ call.before # <<>>
    /\ call.time > 0

(***************************************************************************)
(* The configuration as PermissionManager._load_config leaves it.  It is   *)
(* the record the checks read, every key holding the value that            *)
(* .get(key, default) gives, together with the set of the top-level        *)
(* sections the loaded document has: config['file_access'] and             *)
(* config['web_access'] raise KeyError for a section that is absent.       *)
(* Home, AppHome and TmpDir stand for the directories that                 *)
(* personal_os.config.substitutions() reads from the environment.          *)
(***************************************************************************)
Home == <<"/", "h">>

AppHome == <<"/", "h", "/", "o", "s">>

TmpDir == <<"/", "t", "m", "p">>

(***************************************************************************)
(* personal_os.config.expand_placeholders, for values without a "$": a     *)
(* leading "~" is replaced by the home directory (os.path.expanduser).     *)
(***************************************************************************)
expand_placeholders(value) ==
    IF value # <<>> /\ value[1] = "~" /\ (Len(value) = 1 \/ value[2] = "/")
    THEN Home \o Tail(value)
    ELSE value

expand_in_config(cfg) ==
    [cfg EXCEPT
        !.allowed_paths = [i \in DOMAIN @ |-> expand_placeholders(@[i])],
        !.blocked_paths = [i \in DOMAIN @ |-> expand_placeholders(@[i])],
        !.allowed_domains = [i \in DOMAIN @ |-> expand_placeholders(@[i])],
        !.sensitive_extensions = {expand_placeholders(ext) : ext \in @}]

(***************************************************************************)
(* PermissionManager._get_default_config, its placeholders expanded.  It   *)
(* has no 'emergency' section, so the lockout settings are the defaults of *)
(* record_failed_attempt.                                                  *)
(***************************************************************************)
get_default_config ==
    expand_in_config(
    [ sections |-> {"file_access", "web_access", "browser_security", "audit", "credentials"},
      allowed_paths |-> << AppHome \o <<"/">>,
                           TmpDir \o <<"/", "p", "e", "r", "s", "o", "n", "a", "l", "-", "o", "s", "/">>,
                           Cwd \o <<"/">> >>,
      blocked_paths |-> << Home \o <<"/", ".", "s", "s", "h", "/">>,
                           <<"/", "*", "*", "/", ".", "e", "n", "v">>,
                           <<"/", "*", "*", "/", ".", "e", "n", "v", ".", "*">>,
                           <<"/", "*", "*", "/", "i", "d", "_", "r", "s", "a">>,
                           <<"/", "*", "*", "/", "i", "d", "_", "e", "d", "2", "5", "5", "1", "9">> >>,
      sensitive_extensions |-> { <<".", "p", "e", "m">>,
          <<".", "k", "e", "y">>,
          <<".", "p", "1", "2">>,
          <<".", "p", "f", "x">>,
          <<".", "c", "r", "t">> },
      allowed_domains |-> << <<"m", "a", "i", "l", ".", "g", "o", "o", "g", "l", "e", ".", "c", "o", "m">>,
                           <<"c", "a", "l", "e", "n", "d", "a", "r", ".", "g", "o", "o", "g", "l", "e", ".", "c", "o", "m">>,
                           <<"w", "e", "b", ".", "w", "h", "a", "t", "s", "a", "p", "p", ".", "c", "o", "m">>,
                           <<"a", "c", "c", "o", "u", "n", "t", "s", ".", "g", "o", "o", "g", "l", "e", ".", "c", "o", "m">> >>,
      require_confirmation |->
          {"send_email", "send_message", "create_event", "delete_email", "delete_event"},
      rate_limits |-> [a \in {"send_email", "send_message", "create_event"} |->
                          CASE a = "send_email" -> 50
                            [] a = "send_message" -> 100
                            [] a = "create_event" -> 20],
      max_failed_attempts |-> 5,
      lockout_duration |-> 300,
      log_level |-> "INFO" ])

(***************************************************************************)
(* The documents yaml.safe_load can return from a policy file: nothing     *)
(* (an empty file), or a mapping with any of the sections file_access and  *)
(* web_access, each with or without its lists.                             *)
(***************************************************************************)
ExampleDomain == <<"m", "a", "i", "l", ".", "e", "x", "a", "m", "p", "l", "e", ".", "c", "o", "m">>

AllowedPathLists == { <<>>, << <<"~", "/">> >>, << <<"/", "a", "/">> >> }

BlockedPathLists == { <<>>, << <<"/", "a", "/", "b">> >> }

AllowedDomainLists ==
    { <<>>, <<ExampleDomain>>, << <<"e", "v", "i", "l", ".", "c", "o", "m">>, ExampleDomain >> }

Document(sections, allowed_paths, blocked_paths, allowed_domains) ==
    [ sections |-> sections,
      allowed_paths |-> allowed_paths,
      blocked_paths |-> blocked_paths,
      sensitive_extensions |-> {},
      allowed_domains |-> allowed_domains,
      require_confirmation |-> IF "web_access" \in sections THEN {"send_email"} ELSE {},
      rate_limits |-> IF "web_access" \in sections THEN [a \in {"search"} |-> 1] ELSE <<>>,
      max_failed_attempts |-> 5,
      lockout_duration |-> 300,
      log_level |-> "INFO" ]

Documents ==
    { Document(sections, allowed_paths, blocked_paths, allowed_domains) :
        sections \in SUBSET {"file_access", "web_access"},
        allowed_paths \in AllowedPathLists,
        blocked_paths \in BlockedPathLists,
        allowed_domains \in AllowedDomainLists }

ParsedDocuments ==
    { doc \in Documents :
        /\ "file_access" \notin doc.sections => (doc.allowed_paths = <<>> /\ doc.blocked_paths = <<>>)
        /\ "web_access" \notin doc.sections => doc.allowed_domains = <<>> }

ConfigSources ==
    { [kind |-> "missing"], [kind |-> "unparsable"], [kind |-> "empty"] }
        \cup { [kind |-> "parsed", raw |-> doc] : doc \in ParsedDocuments }

(***************************************************************************)
(* PermissionManager._load_config: the default when the file is missing or *)
(* cannot be parsed; otherwise the document (an empty mapping for an empty *)
(* file) with its placeholders expanded.                                   *)
(***************************************************************************)
load_config(source) ==
    CASE source.kind = "missing" -> get_default_config
      [] source.kind = "unparsable" -> get_default_config
      [] source.kind = "empty" -> expand_in_config(Document({}, <<>>, <<>>, <<>>))
      [] source.kind = "parsed" -> expand_in_config(source.raw)

(***************************************************************************)
(* PermissionManager.check_web_access: the decision (allowed, reason).     *)
(* The mutant compares the end of the domain without the dot.              *)
(***************************************************************************)
check_web_access_any_suffix(domain) ==
    LET allowed_domains == config.allowed_domains
    IN  IF \E i \in DOMAIN allowed_domains : domain = allowed_domains[i]
        THEN [allowed |-> TRUE, reason |-> "Domain access granted"]
        ELSE IF \E i \in DOMAIN allowed_domains : endswith(domain, allowed_domains[i])
        THEN [allowed |-> TRUE, reason |-> "Subdomain access granted"]
        ELSE [allowed |-> FALSE, reason |-> "Domain not in allowed list"]

check_web_access(domain) ==
    LET allowed_domains == config.allowed_domains
    IN  IF \E i \in DOMAIN allowed_domains : domain = allowed_domains[i]
        THEN [allowed |-> TRUE, reason |-> "Domain access granted"]
        ELSE IF \E i \in DOMAIN allowed_domains :
                    \/ endswith(domain, <<".">> \o allowed_domains[i])
                    \/ domain = allowed_domains[i]
        THEN [allowed |-> TRUE, reason |-> "Subdomain access granted"]
        ELSE [allowed |-> FALSE, reason |-> "Domain not in allowed list"]

(***************************************************************************)
(* The policy engine on a loaded configuration: any source of the policy   *)
(* file and any one check, then that check.  A check whose section is      *)
(* absent raises KeyError where it reads the section, before anything      *)
(* else happens.                                                           *)
(***************************************************************************)
DomainInputs ==
    { ExampleDomain,
      <<"s", "u", "b", ".", "m", "a", "i", "l", ".", "e", "x", "a", "m", "p", "l", "e", ".", "c", "o", "m">>,
      <<"e", "v", "i", "l", "m", "a", "i", "l", ".", "e", "x", "a", "m", "p", "l", "e", ".", "c", "o", "m">>,
      <<"e", "v", "i", "l", ".", "c", "o", "m">>,
      <<"e", "x", "a", "m", "p", "l", "e", ".", "c", "o", "m">>,
      <<".">> \o ExampleDomain,
      <<>> }

PolicyRequests ==
    { [op |-> "check_file_access", arg |-> file_path] : file_path \in PathInputs }
        \cup { [op |-> "check_web_access", arg |-> domain] : domain \in DomainInputs }
        \cup { [op |-> "check_action_permission", arg |-> action] : action \in ActionNames }

InitPolicy ==
    /\ \E source \in ConfigSources : config = load_config(source)
    /\ request \in {Some(r) : r \in PolicyRequests}
    /\ InitRest

PolicyFileAccess ==
    /\ request # None
    /\ request[1].op = "check_file_access"
    /\ call' = IF "file_access" \in config.sections
               THEN [op |-> "check_file_access", file_path |-> request[1].arg,
                     ret |-> check_file_access(request[1].arg),
                     logged |-> emitted(check_file_access_log(check_file_access(request[1].arg)))]
               ELSE [op |-> "check_file_access", file_path |-> request[1].arg,
                     raised |-> "KeyError"]
    /\ request' = None
    /\ UNCHANGED <<config, session_state, policy_state, vault_state, sandbox_state>>

PolicyWebAccess ==
    /\ request # None
    /\ request[1].op = "check_web_access"
    /\ call' = IF "web_access" \in config.sections
               THEN [op |-> "check_web_access", domain |-> request[1].arg,
                     ret |-> check_web_access(request[1].arg),
                     logged |-> emitted(check_web_access_log(check_web_access(request[1].arg)))]
               ELSE [op |-> "check_web_access", domain |-> request[1].arg,
                     raised |-> "KeyError"]
    /\ request' = None
    /\ UNCHANGED <<config, session_state, policy_state, vault_state, sandbox_state>>

PolicyActionPermission ==
    /\ request # None
    /\ request[1].op = "check_action_permission"
    /\ IF "web_access" \in config.sections
       THEN CheckActionPermission(request[1].arg)
       ELSE /\ call' = [op |-> "check_action_permission", action |-> request[1].arg,
                        raised |-> "KeyError"]
            /\ UNCHANGED <<config, session_state, policy_state, request, vault_state, sandbox_state>>

NextPolicy ==
    \/ PolicyFileAccess
    \/ PolicyWebAccess
    \/ PolicyActionPermission

SpecPolicy == InitPolicy /\ [][NextPolicy]_vars

\* What C13 says of a domain and an allow-list: the domain equals an allowed
\* domain or ends with "." followed by one.
DomainMatches(domain, allowed_domains) ==
    \E i \in DOMAIN allowed_domains :
        \/ domain = allowed_domains[i]
        \/ /\ Len(domain) > Len(allowed_domains[i])
           /\ SubSeq(domain, Len(domain) - Len(allowed_domains[i]) + 1, Len(domain)) = allowed_domains[i]
           /\ domain[Len(domain) - Len(allowed_domains[i])] = "."

\* C13: under a configuration with a web_access section, check_web_access
\* allows a domain exactly when the domain equals an allowed domain or ends
\* with "." followed by an allowed domain, and denies it otherwise.
C13_DomainMatching ==
    (call.op = "check_web_access" /\ "web_access" \in config.sections)
        => ( /\ "ret" \in DOMAIN call
             /\ call.ret.allowed <=> DomainMatches(call.domain, config.allowed_domains) )

\* C13 happens: with the example domain allowed, a domain that ends with
\* the example domain but has no dot before it has been denied.
C13_Witness ==
    /\ call.op = "check_web_access"
    /\ "ret" \in DOMAIN call
    /\ ~call.ret.allowed
    /\ \E i \in DOMAIN config.allowed_domains : config.allowed_domains[i] = ExampleDomain
    /\ call.domain = <<"e", "v", "i", "l", "m", "a", "i", "l", ".", "e", "x", "a", "m", "p", "l", "e", ".", "c", "o", "m">>

\* C16: under every configuration that loading can produce, each of
\* check_file_access, check_web_access and check_action_permission returns
\* a decision and raises nothing.
C16_NeverThrows ==
    call.op \in {"check_file_access", "check_web_access", "check_action_permission"}
        => ( /\ "raised" \notin DOMAIN call
             /\ call.ret.allowed \in BOOLEAN )

(***************************************************************************)
(* The session: SecurePersonalOS with its PermissionManager, its           *)
(* CredentialVault and its PlaywrightManager.                              *)
(***************************************************************************)
MaxLaunches == 2

\* PermissionManager.is_panic_mode: the emergency flag, False when absent.
\* The mutant never reports panic mode.
is_panic_mode_never == FALSE

is_panic_mode ==
    IF "panic_mode_enabled" \in DOMAIN config THEN config.panic_mode_enabled ELSE FALSE

\* What Playwright does when asked for a browser: it starts one, it fails
\* before a browser exists, or it fails after the browser was launched.
LaunchOutcomes == {"started", "no_browser", "no_context"}

(***************************************************************************)
(* PlaywrightManager.start_browser_session on the manager's state b        *)
(* (browser, launches): the state it leaves and the value returned.        *)
(***************************************************************************)
start_browser_session(b, headless, outcome) ==
    IF is_panic_mode
    THEN [b |-> b, ret |-> FALSE]
    ELSE CASE outcome = "started" ->
                [b |-> [browser |-> Some(b.launches + 1), launches |-> b.launches + 1], ret |-> TRUE]
           [] outcome = "no_context" ->
                [b |-> [browser |-> Some(b.launches + 1), launches |-> b.launches + 1], ret |-> FALSE]
           [] outcome = "no_browser" ->
                [b |-> b, ret |-> FALSE]

B == [browser |-> browser, launches |-> launches]

StartBrowserSession(headless, outcome) ==
    /\ launches < MaxLaunches
    /\ LET started == start_browser_session(B, headless, outcome)
       IN  /\ browser' = started.b.browser
           /\ launches' = started.b.launches
           /\ call' = [op |-> "start_browser_session", args |-> [headless |-> headless],
                       ret |-> started.ret]
    /\ UNCHANGED <<config, policy_state, request, vault_state, sandbox_state, session_active>>

(***************************************************************************)
(* SecurePersonalOS.initialize_session: the panic check, the unlock of the *)
(* vault, the browser, and then the session is marked active.              *)
(***************************************************************************)
InitializeSession(master_password, outcome) ==
    /\ launches < MaxLaunches
    /\ IF is_panic_mode
       THEN /\ call' = [op |-> "initialize_session", args |-> [master_password |-> master_password],
                        ret |-> [success |-> FALSE,
                                 message |-> "System is in panic mode - all operations disabled"]]
            /\ UNCHANGED <<vault_state, session_state>>
       ELSE LET unlocked == unlock_vault(V, master_password)
                started == start_browser_session(B, FALSE, outcome)
            IN  /\ cipher_suite' = unlocked.v.cipher_suite
                /\ credentials' = unlocked.v.credentials
                /\ last_access' = unlocked.v.last_access
                /\ vault_file' = unlocked.v.vault_file
                /\ vault_mode' = unlocked.v.vault_mode
                /\ salt_file' = unlocked.v.salt_file
                /\ IF ~unlocked.ret
                   THEN /\ call' = [op |-> "initialize_session",
                                    args |-> [master_password |-> master_password],
                                    ret |-> [success |-> FALSE,
                                             message |-> "Failed to unlock credential vault"]]
                        /\ UNCHANGED session_state
                   ELSE /\ browser' = started.b.browser
                        /\ launches' = started.b.launches
                        /\ session_active' = (started.ret \/ session_active)
                        /\ call' = [op |-> "initialize_session",
                                    args |-> [master_password |-> master_password],
                                    ret |-> IF started.ret
                                            THEN [success |-> TRUE,
                                                  message |-> "Session initialized successfully"]
                                            ELSE [success |-> FALSE,
                                                  message |-> "Failed to start browser session"]]
    /\ UNCHANGED <<config, policy_state, request, sandbox_state>>

(***************************************************************************)
(* SecurePersonalOS.close_session: the browser is closed and the vault     *)
(* locked; the session is marked inactive only when the session file       *)
(* could be written.                                                       *)
(***************************************************************************)
CloseSession(written) ==
    /\ browser' = None
    /\ cipher_suite' = lock_vault(V).cipher_suite
    /\ credentials' = lock_vault(V).credentials
    /\ last_access' = lock_vault(V).last_access
    /\ session_active' = IF written THEN FALSE ELSE session_active
    /\ call' = [op |-> "close_session", args |-> <<>>,
                ret |-> [success |-> written,
                         message |-> IF written THEN "Session closed successfully" ELSE "OSError"]]
    /\ UNCHANGED <<config, policy_state, request, vault_file, salt_file, vault_mode, sandbox_state, launches>>

(***************************************************************************)
(* The configurations of a session: the default one, without an emergency  *)
(* section or with its panic flag set or cleared.  The vault on disk is    *)
(* absent, or was left by an earlier run: created with password "p" (no    *)
(* salt file), or written by change_master_password (with its salt file).  *)
(***************************************************************************)
SessionConfigs ==
    { DefaultConfig,
      ("panic_mode_enabled" :> TRUE) @@ DefaultConfig,
      ("panic_mode_enabled" :> FALSE) @@ DefaultConfig }

VaultsOnDisk ==
    { [vault_file |-> None, salt_file |-> None, vault_mode |-> None],
      [vault_file |-> Some(encrypt(derive_key("p", 1), [credentials |-> <<>>])), salt_file |-> None,
       vault_mode |-> Some(OwnerOnly)],
      [vault_file |-> Some(encrypt(derive_key("p", 1), [credentials |-> <<>>])), salt_file |-> Some(1),
       vault_mode |-> Some(OwnerOnly)] }

InitSession ==
    /\ config \in SessionConfigs
    /\ request = None
    /\ rate_limiter = <<>>
    /\ failed_attempts = <<>>
    /\ now = 0
    /\ call = NoCall
    /\ permitted = <<>>
    /\ ncalls = <<>>
    /\ failures = <<>>
    /\ cipher_suite = None
    /\ credentials = <<>>
    /\ last_access = None
    /\ \E disk \in VaultsOnDisk :
          /\ vault_file = disk.vault_file
          /\ salt_file = disk.salt_file
          /\ vault_mode = disk.vault_mode
    /\ sandbox_dir = None
    /\ active_processes = <<>>
    /\ directories = {}
    /\ processes = <<>>
    /\ scopes = [k \in 1..MaxScopes |-> [pc |-> "out", dir |-> None]]
    /\ monitored = None
    /\ browser = None
    /\ launches = 0
    /\ session_active = FALSE

NextSession ==
    \/ \E master_password \in Passwords, outcome \in LaunchOutcomes :
          InitializeSession(master_password, outcome)
    \/ \E headless \in BOOLEAN, outcome \in LaunchOutcomes :
          StartBrowserSession(headless, outcome)
    \/ \E written \in BOOLEAN : CloseSession(written)

SpecSession == InitSession /\ [][NextSession]_vars

\* The emergency panic flag of the configuration is set.
PanicFlagSet ==
    "panic_mode_enabled" \in DOMAIN config /\ config.panic_mode_enabled = TRUE

\* C17: in panic mode initialize_session returns failure and changes neither
\* the vault, which stays locked, nor the browser, and start_browser_session
\* returns false and launches no browser.
C17_PanicMode ==
    [][ /\ (PanicFlagSet /\ call'.op = "initialize_session")
            => ( /\ ~call'.ret.success
                 /\ cipher_suite = None
                 /\ UNCHANGED <<vault_state, browser, launches, session_active>> )
        /\ (PanicFlagSet /\ call'.op = "start_browser_session")
            => ( /\ call'.ret = FALSE
                 /\ UNCHANGED <<browser, launches>> ) ]_vars

\* C17 happens: in panic mode initialize_session was refused with the
\* password and the salt of the vault on disk, and the vault holds no key
\* and no browser was ever launched.
C17_Witness ==
    /\ PanicFlagSet
    /\ call.op = "initialize_session"
    /\ ~call.ret.success
    /\ vault_file # None
    /\ salt_file = Some(vault_file[1].key.salt)
    /\ call.args.master_password = vault_file[1].key.password
    /\ cipher_suite = None
    /\ launches = 0

(***************************************************************************)
(* The vault's data in one session: one master password, two payloads and  *)
(* entries that are read more than once.                                   *)
(***************************************************************************)
MaxRetrievals == 2

RoundTripPayloads == {1, 2}

RetrieveCredentialAgain(service, identifier) ==
    /\ \A i \in Ids :
          (identifier = Some(i) /\ service \in DOMAIN credentials /\ i \in DOMAIN credentials[service])
              => credentials[service][i].access_count < MaxRetrievals
    /\ VaultCall("retrieve_credential", [service |-> service, identifier |-> identifier],
                 retrieve_credential(V, service, identifier))

NextRoundTrip ==
    \/ UnlockVault("p")
    \/ LockVault
    \/ \E service \in Services, identifier \in Ids, credential_data \in RoundTripPayloads :
            StoreCredential(service, identifier, credential_data)
    \/ \E service \in Services, identifier \in OptIds : RetrieveCredentialAgain(service, identifier)
    \/ \E service \in Services, identifier \in OptIds : DeleteCredential(service, identifier)

SpecRoundTrip == InitVault /\ [][NextRoundTrip]_vars

\* The entry of (service, identifier) in a credential map, or None.
EntryOf(creds, service, identifier) ==
    IF service \in DOMAIN creds /\ identifier \in DOMAIN creds[service]
    THEN Some(creds[service][identifier])
    ELSE None

\* C18: on an unlocked vault a store leaves the entry with the payload given
\* and access count 0; a single-entry retrieval returns the entry with its
\* payload and an access count one higher than before, and leaves that count
\* in the entry; every other call that keeps the vault unlocked and is not a
\* store or delete leaves every entry's payload and count as they were; so
\* the k-th single-entry retrieval after a store returns the stored payload
\* with access count k, and a whole-service retrieval changes no count.
C18_RoundTrip ==
    [][ (cipher_suite # None /\ cipher_suite' # None)
        => \A s \in Services, i \in Ids :
             /\ ( /\ call'.op = "store_credential"
                  /\ call'.args.service = s /\ call'.args.identifier = i
                  /\ call'.ret = TRUE )
                  => ( /\ EntryOf(credentials', s, i) # None
                       /\ credentials'[s][i].data = call'.args.credential_data
                       /\ credentials'[s][i].access_count = 0 )
             /\ ( /\ call'.op = "retrieve_credential"
                  /\ call'.args.service = s /\ call'.args.identifier = Some(i)
                  /\ EntryOf(credentials, s, i) # None )
                  => ( /\ call'.ret # None
                       /\ call'.ret[1].data = credentials[s][i].data
                       /\ call'.ret[1].access_count = credentials[s][i].access_count + 1
                       /\ credentials'[s][i].data = credentials[s][i].data
                       /\ credentials'[s][i].access_count = call'.ret[1].access_count )
             /\ ( /\ call'.op = "retrieve_credential"
                  /\ call'.args.service = s /\ call'.args.identifier = None
                  /\ s \in DOMAIN credentials )
                  => ( /\ call'.ret = Some(credentials[s])
                       /\ \A j \in DOMAIN credentials[s] :
                            /\ EntryOf(credentials', s, j) # None
                            /\ credentials'[s][j].access_count = credentials[s][j].access_count
                            /\ credentials'[s][j].data = credentials[s][j].data )
             /\ ( /\ ~( call'.op \in {"store_credential", "delete_credential"} )
                  /\ ~( call'.op = "retrieve_credential" /\ call'.args.identifier = Some(i) )
                  /\ EntryOf(credentials, s, i) # None )
                  => ( /\ EntryOf(credentials', s, i) # None
                       /\ credentials'[s][i].access_count = credentials[s][i].access_count
                       /\ credentials'[s][i].data = credentials[s][i].data ) ]_vars

\* C18 happens: the second single-entry retrieval of an entry stored with
\* payload 2 has returned that payload with access count 2, after a
\* whole-service retrieval is still possible with the count unchanged.
C18_Witness ==
    /\ call.op = "retrieve_credential"
    /\ call.args.identifier = Some("a")
    /\ call.ret # None
    /\ call.ret[1].data = 2
    /\ call.ret[1].access_count = 2
    /\ EntryOf(credentials, "mail", "b") # None
    /\ credentials["mail"]["b"].access_count = 1
    /\ credentials["mail"]["b"].data = 1

\* The vault file decrypts under the key the vault holds to exactly the
\* credential map the vault holds in memory.
FileMatchesMemory ==
    /\ cipher_suite # None
    /\ vault_file # None
    /\ decrypt(cipher_suite[1], vault_file[1]) = Some([credentials |-> credentials])

\* C19: after a single-entry retrieve_credential that found its entry, the
\* vault file decrypts to the credential map held in memory, with the
\* incremented access count and the new time of last access.
C19_ReadTriggersWrite ==
    ( /\ call.op = "retrieve_credential"
      /\ call.args.identifier # None
      /\ call.ret # None )
        => FileMatchesMemory

\* C20: after every store_credential and every delete_credential that
\* returned true, the vault file decrypts under the current key to exactly
\* the complete credential map held in memory.
C20_FileIsWholeMap ==
    (call.op \in {"store_credential", "delete_credential"} /\ call.ret = TRUE)
        => FileMatchesMemory

\* C20 happens: a delete of one entry succeeded while another entry, read
\* once since it was stored, remains, and the file holds that entry with
\* its access count.
C20_Witness ==
    /\ call.op = "delete_credential"
    /\ call.args.identifier = Some("a")
    /\ call.ret = TRUE
    /\ EntryOf(credentials, "mail", "b") # None
    /\ credentials["mail"]["b"].access_count = 1
    /\ FileMatchesMemory

(***************************************************************************)
(* Stores and deletes over two services: one master password, one payload. *)
(***************************************************************************)
TwoServices == {"mail", "cal"}

NextDelete ==
    \/ UnlockVault("p")
    \/ LockVault
    \/ \E service \in TwoServices, identifier \in Ids :
            StoreCredential(service, identifier, 1)
    \/ \E service \in TwoServices, identifier \in OptIds : DeleteCredential(service, identifier)

SpecDelete == InitVault /\ [][NextDelete]_vars

\* C21: a delete_credential that returned true has removed the entry named,
\* or every entry of the service when no identifier was given, and has left
\* every other entry as it was; and at all times no service key of the
\* credential map, in memory or in the file, maps to an empty identifier map.
C21_DeleteExactly ==
    /\ [] ( /\ \A s \in DOMAIN credentials : DOMAIN credentials[s] # {}
            /\ vault_file # None =>
                 \A s \in DOMAIN vault_file[1].data.credentials :
                     DOMAIN vault_file[1].data.credentials[s] # {} )
    /\ [][ (call'.op = "delete_credential" /\ call'.ret = TRUE)
           => \A s \in TwoServices, i \in Ids :
                EntryOf(credentials', s, i) =
                    IF /\ s = call'.args.service
                       /\ (call'.args.identifier = None \/ call'.args.identifier = Some(i))
                    THEN None
                    ELSE EntryOf(credentials, s, i) ]_vars

\* C21 happens: the last identifier of one service was deleted, its service
\* key is gone, and both entries of the other service are still there.
C21_Witness ==
    /\ call.op = "delete_credential"
    /\ call.args = [service |-> "mail", identifier |-> Some("a")]
    /\ call.ret = TRUE
    /\ DOMAIN credentials = {"cal"}
    /\ DOMAIN credentials["cal"] = {"a", "b"}
    /\ vault_file[1].data.credentials = credentials

\* C22: once change_master_password(current, new) has returned true,
\* lock_vault followed by unlock_vault(new) returns true and loads exactly
\* the credential map the vault holds, and unlock_vault(current) after the
\* lock returns false when current differs from new; the change itself
\* leaves the credential map of an unlocked vault as it was.
C22_PasswordChange ==
    /\ [] ( (call.op = "change_master_password" /\ call.ret = TRUE)
            => LET relocked == lock_vault(V)
                   with_new == unlock_vault(relocked, call.args.new_password)
                   with_current == unlock_vault(relocked, call.args.current_password)
               IN  /\ with_new.ret = TRUE
                   /\ with_new.v.credentials = credentials
                   /\ call.args.current_password # call.args.new_password
                        => ( with_current.ret = FALSE /\ with_current.v.cipher_suite = None ) )
    /\ [][ ( /\ now' = now
             /\ call'.op = "change_master_password"
             /\ call'.ret = TRUE
             /\ ~is_locked(V).ret )
           => credentials' = credentials ]_vars

\* C22 happens: the password of an unlocked vault that holds an entry was
\* changed to a different one.
C22_Witness ==
    /\ call.op = "change_master_password"
    /\ call.ret = TRUE
    /\ ~call.locked
    /\ call.args.current_password # call.args.new_password
    /\ cipher_suite # None
    /\ cipher_suite[1].password = call.args.new_password
    /\ EntryOf(credentials, "mail", "a") # None

(***************************************************************************)
(* CredentialVault.change_master_password cut short between its two        *)
(* writes: the vault is opened as in the complete call, the new salt is in *)
(* the salt file, the vault file is the old one, and the process is gone;  *)
(* v is the vault as a new CredentialVault finds it.  The mutant writes    *)
(* nothing before the point of interruption.                               *)
(***************************************************************************)
change_master_password_interrupted_early(v, current_password, new_password) ==
    LET locked == is_locked(v)
        opened == IF locked.ret THEN unlock_vault(locked.v, current_password)
                  ELSE [v |-> v, ret |-> TRUE]
    IN  [v |-> lock_vault(opened.v), reached |-> opened.ret]

change_master_password_interrupted(v, current_password, new_password) ==
    LET locked == is_locked(v)
        opened == IF locked.ret THEN unlock_vault(locked.v, current_password)
                  ELSE [v |-> v, ret |-> TRUE]
        salt == urandom(opened.v)
    IN  [v |-> lock_vault([opened.v EXCEPT !.salt_file = Some(salt)]), reached |-> opened.ret]

ChangeMasterPasswordInterrupted(current_password, new_password) ==
    LET cut == change_master_password_interrupted(V, current_password, new_password)
    IN  /\ cut.reached
        /\ cipher_suite' = cut.v.cipher_suite
        /\ credentials' = cut.v.credentials
        /\ last_access' = cut.v.last_access
        /\ vault_file' = cut.v.vault_file
        /\ vault_mode' = cut.v.vault_mode
        /\ salt_file' = cut.v.salt_file
        /\ call' = [op |-> "change_master_password",
                    args |-> [current_password |-> current_password, new_password |-> new_password],
                    interrupted |-> TRUE,
                    before |-> [vault_file |-> vault_file, salt_file |-> salt_file],
                    locked |-> cipher_suite = None]
        /\ UNCHANGED <<config, session_state, policy_state, request, sandbox_state>>

NextCrash ==
    \/ \E master_password \in Passwords : UnlockVault(master_password)
    \/ LockVault
    \/ \E identifier \in Ids : StoreCredential("mail", identifier, 1)
    \/ \E current_password \in Passwords, new_password \in Passwords :
            ChangeMasterPassword(current_password, new_password)
    \/ \E current_password \in Passwords, new_password \in Passwords :
            ChangeMasterPasswordInterrupted(current_password, new_password)

SpecCrash == InitVault /\ [][NextCrash]_vars

\* C23: after a change_master_password that was interrupted between the
\* write of the new salt and the write of the new ciphertext, the salt file
\* does not hold the salt of the vault file's key, and unlock_vault returns
\* false for the old password, for the new one and for every other one.
C23_Desynchronized ==
    (call.op = "change_master_password" /\ "interrupted" \in DOMAIN call)
        => /\ vault_file # None
           /\ salt_file # None
           /\ salt_file[1] # vault_file[1].key.salt
           /\ \A master_password \in Passwords :
                /\ unlock_vault(V, master_password).ret = FALSE
                /\ unlock_vault(V, master_password).v.cipher_suite = None

\* C23 happens: the interrupted change found salt and ciphertext belonging
\* together, so that the old password did unlock the vault before it.
C23_Witness ==
    /\ call.op = "change_master_password"
    /\ "interrupted" \in DOMAIN call
    /\ call.before.vault_file # None
    /\ call.before.salt_file = Some(call.before.vault_file[1].key.salt)
    /\ call.before.vault_file[1].data.credentials # <<>>
    /\ vault_file = call.before.vault_file
    /\ salt_file # call.before.salt_file

(***************************************************************************)
(* The writes of the vault file, point by point.  _save_vault and          *)
(* create_vault open the file at vault_path with mode 'wb', which creates  *)
(* it with the permissions the umask leaves or empties the file that is    *)
(* there, then write the ciphertext, then chmod the file to 0o600.  A      *)
(* process that ends after the open ("opened") or after the write          *)
(* ("written") leaves the file as it is at that point; v is the vault as   *)
(* a new CredentialVault finds it.  An emptied file is a token that no key *)
(* decrypts.                                                               *)
(***************************************************************************)
NoKey == [password |-> "", salt |-> 0]

EmptyFile == [key |-> NoKey, data |-> <<>>]

CreatedModes == {"0600", "0644"}

WritePoints == {"opened", "written"}

write_interrupted(v, complete, point, created_mode) ==
    [lock_vault(complete) EXCEPT
        !.vault_file = IF point = "opened" THEN Some(EmptyFile) ELSE complete.vault_file,
        !.vault_mode = IF v.vault_file = None THEN Some(created_mode) ELSE v.vault_mode]

WriteInterrupted(op, args, complete, point, created_mode) ==
    LET cut == write_interrupted(V, complete, point, created_mode)
    IN  /\ cipher_suite' = cut.cipher_suite
        /\ credentials' = cut.credentials
        /\ last_access' = cut.last_access
        /\ vault_file' = cut.vault_file
        /\ salt_file' = cut.salt_file
        /\ vault_mode' = cut.vault_mode
        /\ call' = [op |-> op, args |-> args, interrupted |-> TRUE, point |-> point,
                    before |-> vault_file, intended |-> complete.vault_file,
                    locked |-> cipher_suite = None]
        /\ UNCHANGED <<config, session_state, policy_state, request, sandbox_state>>

\* store_credential on an unlocked vault, ended inside _save_vault.
StoreCredentialInterrupted(service, identifier, credential_data, point) ==
    /\ ~is_locked(V).ret
    /\ WriteInterrupted("store_credential",
                        [service |-> service, identifier |-> identifier,
                         credential_data |-> credential_data],
                        store_credential(V, service, identifier, credential_data).v,
                        point, OwnerOnly)

\* unlock_vault where no vault file exists, ended inside create_vault.
CreateVaultInterrupted(master_password, point, created_mode) ==
    /\ vault_file = None
    /\ WriteInterrupted("unlock_vault", [master_password |-> master_password],
                        create_vault(V, master_password).v, point, created_mode)

NextAtomic ==
    \/ UnlockVault("p")
    \/ LockVault
    \/ \E identifier \in Ids, credential_data \in RoundTripPayloads :
            StoreCredential("mail", identifier, credential_data)
    \/ \E identifier \in Ids, credential_data \in RoundTripPayloads, point \in WritePoints :
            StoreCredentialInterrupted("mail", identifier, credential_data, point)
    \/ \E point \in WritePoints, created_mode \in CreatedModes :
            CreateVaultInterrupted("p", point, created_mode)

SpecAtomic == InitVault /\ [][NextAtomic]_vars

\* C24: at every point of a write of the vault file, a point where the
\* process ends included, the file on disk is the complete previous
\* ciphertext (or absent as before) or the complete new one, and a vault
\* file that exists never has permissions other than owner read and write.
C24_AtomicOverwrite ==
    /\ "interrupted" \in DOMAIN call
         => (vault_file = call.before \/ vault_file = call.intended)
    /\ vault_file # None => vault_mode = Some(OwnerOnly)

\* C25: an unlock_vault that returns false leaves the vault file and the
\* salt file exactly as they were before the call.
C25_FailedUnlockKeepsFiles ==
    [][ (now' = now /\ call'.op = "unlock_vault" /\ call'.ret = FALSE)
        => (vault_file' = vault_file /\ salt_file' = salt_file) ]_vars

(***************************************************************************)
(* What the vault lets out besides the entries it is asked for: the value  *)
(* each call returns (for retrieve_credential only whether it found        *)
(* something) and the lines it sends to its logger.                        *)
(***************************************************************************)
VaultApply(v, op, args) ==
    CASE op = "unlock_vault" -> unlock_vault(v, args.master_password)
      [] op = "lock_vault" -> [v |-> lock_vault(v), ret |-> None]
      [] op = "is_locked" -> is_locked(v)
      [] op = "store_credential" ->
            store_credential(v, args.service, args.identifier, args.credential_data)
      [] op = "retrieve_credential" -> retrieve_credential(v, args.service, args.identifier)
      [] op = "delete_credential" -> delete_credential(v, args.service, args.identifier)
      [] op = "list_services" -> list_services(v)
      [] op = "list_identifiers" -> list_identifiers(v, args.service)
      [] op = "get_vault_stats" -> get_vault_stats(v)
      [] op = "change_master_password" ->
            change_master_password(v, args.current_password, args.new_password)

VaultCalls ==
    { [op |-> "unlock_vault", args |-> [master_password |-> p]] : p \in Passwords }
        \cup { [op |-> op, args |-> <<>>] :
                 op \in {"lock_vault", "is_locked", "list_services", "get_vault_stats"} }
        \cup { [op |-> "store_credential",
                args |-> [service |-> s, identifier |-> i, credential_data |-> d]] :
                 s \in Services, i \in Ids, d \in Payloads }
        \cup { [op |-> op, args |-> [service |-> s, identifier |-> i]] :
                 op \in {"retrieve_credential", "delete_credential"}, s \in Services, i \in OptIds }
        \cup { [op |-> "list_identifiers", args |-> [service |-> s]] : s \in Services }
        \cup { [op |-> "change_master_password",
                args |-> [current_password |-> p, new_password |-> q]] :
                 p \in Passwords, q \in Passwords }

\* The logger lines of a call made in state v that gave result r.
LogLine(message, detail) == [message |-> message, detail |-> detail]

log_detail(v, op, args, r) ==
    LET locked == is_locked(v)
        auto_locked == IF v.cipher_suite # None /\ locked.ret
                       THEN <<LogLine("Vault locked", <<>>)>> ELSE <<>>
        unlocking(u) ==
            IF u.vault_file = None
            THEN <<LogLine("Vault doesn't exist, creating new one", <<>>),
                   LogLine("Created new credential vault", <<>>)>>
            ELSE IF r.v.cipher_suite # None /\ r.v.credentials = r.v.vault_file[1].data.credentials
                    /\ (op = "change_master_password" \/ r.ret = TRUE)
            THEN <<LogLine("Successfully unlocked credential vault", <<>>)>>
            ELSE <<LogLine("Error decrypting vault: Invalid master password", <<>>)>>
    IN  CASE op = "unlock_vault" -> unlocking(v)
          [] op = "lock_vault" -> <<LogLine("Vault locked", <<>>)>>
          [] op \in {"is_locked", "list_services", "list_identifiers", "get_vault_stats"} ->
                auto_locked
          [] op = "store_credential" ->
                auto_locked \o
                (IF locked.ret THEN <<LogLine("Vault is locked", <<>>)>>
                 ELSE <<LogLine("Stored credentials for", <<args.service, args.identifier>>)>>)
          [] op = "retrieve_credential" ->
                auto_locked \o
                (IF locked.ret THEN <<LogLine("Vault is locked", <<>>)>>
                 ELSE IF args.identifier # None /\ r.ret # None
                 THEN <<LogLine("Retrieved credentials for", <<args.service, args.identifier>>)>>
                 ELSE <<>>)
          [] op = "delete_credential" ->
                auto_locked \o
                (IF locked.ret THEN <<LogLine("Vault is locked", <<>>)>>
                 ELSE IF r.ret = TRUE
                 THEN <<LogLine("Deleted credentials for", <<args.service, args.identifier>>)>>
                 ELSE <<>>)
          [] op = "change_master_password" ->
                auto_locked \o
                (IF locked.ret THEN unlocking(locked.v) ELSE <<>>) \o
                (IF r.ret THEN <<LogLine("Master password changed successfully", <<>>)>> ELSE <<>>)

Observed(v, op, args, r) ==
    [ ret |-> IF op = "retrieve_credential" THEN r.ret # None ELSE r.ret,
      log |-> log_detail(v, op, args, r) ]

(***************************************************************************)
(* The same run with other secrets: every payload, in memory and in the    *)
(* file, replaced by one value, and the master passwords renamed.          *)
(***************************************************************************)
(***************************************************************************)
(* The vault with secrets that vary: two payloads and two passwords, and   *)
(* the calls that store, re-encrypt and report.                            *)
(***************************************************************************)
NextSecrets ==
    \/ \E master_password \in Passwords : UnlockVault(master_password)
    \/ LockVault
    \/ \E identifier \in Ids, credential_data \in RoundTripPayloads :
            StoreCredential("mail", identifier, credential_data)
    \/ GetVaultStats
    \/ \E current_password \in Passwords, new_password \in Passwords :
            ChangeMasterPassword(current_password, new_password)

SpecSecrets == InitVault /\ [][NextSecrets]_vars

PasswordRenamings ==
    { pi \in [Passwords -> Passwords] : \A p \in Passwords, q \in Passwords : pi[p] = pi[q] => p = q }

ScrubKey(key, pi) == [password |-> pi[key.password], salt |-> key.salt]

ScrubCredentials(creds) ==
    [s \in DOMAIN creds |-> [i \in DOMAIN creds[s] |-> [creds[s][i] EXCEPT !.data = 0]]]

Scrub(v, pi) ==
    [v EXCEPT
        !.cipher_suite = IF @ = None THEN None ELSE Some(ScrubKey(@[1], pi)),
        !.credentials = ScrubCredentials(@),
        !.vault_file = IF @ = None THEN None
                       ELSE Some([key |-> ScrubKey(@[1].key, pi),
                                  data |-> [credentials |-> ScrubCredentials(@[1].data.credentials)]])]

ScrubArgs(args, pi) ==
    [f \in DOMAIN args |->
        CASE f \in {"master_password", "current_password", "new_password"} -> pi[args[f]]
          [] f = "credential_data" -> 0
          [] OTHER -> args[f]]

\* C26: in every state the vault reaches, every call gives the same return
\* value (for retrieve_credential: found or not) and the same log lines as
\* the same call in the run whose payloads are all replaced and whose
\* master passwords are renamed, and it leaves that run in the state that
\* corresponds; and get_vault_stats on a locked vault returns status
\* "locked" and no other field.
C26_NoSideChannel ==
    /\ \A c \in VaultCalls, pi \in PasswordRenamings :
          LET r == VaultApply(V, c.op, c.args)
              other == VaultApply(Scrub(V, pi), c.op, ScrubArgs(c.args, pi))
          IN  /\ Observed(V, c.op, c.args, r)
                    = Observed(Scrub(V, pi), c.op, ScrubArgs(c.args, pi), other)
              /\ Scrub(r.v, pi) = other.v
    /\ (call.op = "get_vault_stats" /\ call.locked) => call.ret = [status |-> "locked"]

\* C26 happens: get_vault_stats has answered on an unlocked vault that
\* holds two entries with payloads, under a password that the other run
\* renames, and has answered on a locked vault.
C26_Witness ==
    /\ call.op = "get_vault_stats"
    /\ ~call.locked
    /\ call.ret.status = "unlocked"
    /\ call.ret.total_credentials = 2
    /\ EntryOf(credentials, "mail", "a") # None /\ credentials["mail"]["a"].data = 1
    /\ EntryOf(credentials, "mail", "b") # None /\ credentials["mail"]["b"].data = 2
    /\ cipher_suite # None

(***************************************************************************)
(* execute_python_code: the code is written to a file below sandbox_dir    *)
(* (os.path.join raises TypeError when sandbox_dir is None) and python3 is *)
(* run on it through execute_sandboxed_command, whose outcome is the       *)
(* outcome of the call.                                                    *)
(***************************************************************************)
code_file(dir) ==
    dir \o <<"/", "s", "c", "r", "i", "p", "t", "s", "/",
             "s", "a", "n", "d", "b", "o", "x", "_", "c", "o", "d", "e", ".", "p", "y">>

ExecutePythonCode(popen_raises) ==
    /\ monitored = None
    /\ IF sandbox_dir = None
       THEN /\ call' = [op |-> "execute_python_code", command |-> <<>>,
                        raised |-> "TypeError", ret |-> None]
            /\ UNCHANGED sandbox_state
       ELSE LET command == << <<"p", "y", "t", "h", "o", "n", "3">>, code_file(sandbox_dir[1]) >>
            IN  IF command_blocked(sandbox_dir[1], command)
                THEN /\ call' = [op |-> "execute_python_code", command |-> command,
                                 raised |-> "", ret |-> Some(PolicyViolation)]
                     /\ UNCHANGED sandbox_state
                ELSE IF popen_raises
                THEN /\ call' = [op |-> "execute_python_code", command |-> command,
                                 raised |-> "UnboundLocalError", ret |-> None]
                     /\ UNCHANGED sandbox_state
                ELSE /\ Len(processes) < MaxProcs
                     /\ LET process == Len(processes) + 1
                        IN  /\ processes' = Append(processes, "running")
                            /\ active_processes' = Append(active_processes, process)
                            /\ monitored' = Some(process)
                     /\ call' = [op |-> "execute_python_code", command |-> command,
                                 raised |-> "", ret |-> None]
                     /\ UNCHANGED <<sandbox_dir, directories, scopes>>
    /\ UNCHANGED <<config, session_state, policy_state, request, vault_state>>

(***************************************************************************)
(* The sandbox's processes: scopes entered and left, commands and code     *)
(* executed, and every way the wait for a spawned process can end.         *)
(***************************************************************************)
ProcessCommands == { << <<"l", "s">> >>, << <<"r", "m">> >>, << <<"x">> >> }

NextProcesses ==
    \/ \E k \in 1..MaxScopes : EnterScope(k)
    \/ \E k \in 1..MaxScopes, exception \in BOOLEAN : ExitScope(k, exception)
    \/ \E command \in ProcessCommands, popen_raises \in BOOLEAN :
            ExecuteSandboxedCommand(command, popen_raises)
    \/ \E popen_raises \in BOOLEAN : ExecutePythonCode(popen_raises)
    \/ \E returncode \in {0, 1}, stderr \in ProcessStderr : ProcessExits(returncode, stderr)
    \/ ProcessTimesOut
    \/ MonitoringFails
    \/ MonitoringInterrupted

SpecProcesses == InitSandbox /\ [][NextProcesses]_vars

\* C27: when the timeout of a spawned command elapses the process is killed
\* and the call returns success = false with the timeout reason; a command
\* that exits with a nonzero code never yields the timeout reason; in both
\* cases the process is neither running nor in the registry at the return.
C27_Timeout ==
    [][ ( /\ monitored # None
          /\ monitored' = None
          /\ call'.event \in {"timeout", "exit"} )
        => LET process == monitored[1]
               result == call'.ret[1]
           IN  /\ processes'[process] # "running"
               /\ \A i \in 1..Len(active_processes') : active_processes'[i] # process
               /\ call'.event = "timeout"
                     => ( /\ processes'[process] = "killed"
                          /\ ~result.success
                          /\ result.stderr = TimeoutReason )
               /\ (call'.event = "exit" /\ ~result.success)
                     => result.stderr # TimeoutReason ]_vars

\* C28: execute_sandboxed_command and execute_python_code report every
\* failure as a result and let no exception reach the caller.
C28_ReturnsNotRaises ==
    call.op \in {"execute_sandboxed_command", "execute_python_code"}
        => call.raised = ""

\* C29: every spawned process is in the registry for as long as it runs, and
\* once a scope's exit has removed the working directory no spawned process
\* is still running.
C29_RegistryAndTeardown ==
    /\ \A process \in DOMAIN processes :
          processes[process] = "running" => InRegistry(process)
    /\ (call.op = "create_sandbox:exit" /\ call.dir \notin directories)
          => \A process \in DOMAIN processes : processes[process] # "running"

\* C30: is_locked_out leaves the table of failed attempts as it was; called
\* at the instant of the record_failed_attempt before it, for the same
\* identifier, it returns what that call returned; for an identifier without
\* a record it returns false.
C30_PureReevaluation ==
    [][ (now' = now /\ call'.op = "is_locked_out")
        => ( /\ failed_attempts' = failed_attempts
             /\ ( /\ call.op = "record_failed_attempt"
                  /\ call.identifier = call'.identifier
                  /\ call.time = now )
                   => call'.ret = call.ret
             /\ call'.identifier \notin DOMAIN failed_attempts
                   => call'.ret = FALSE ) ]_vars

\* C30 happens: is_locked_out has just returned true for an identifier whose
\* latest failure was recorded at this instant and whose record also holds a
\* failure older than the lockout window, while another identifier has no
\* record.
C30_Witness ==
    /\ call.op = "is_locked_out" /\ call.ret = TRUE
    /\ call.time = now
    /\ call.identifier \in DOMAIN failed_attempts
    /\ failed_attempts = call.before
    /\ LET attempts == failed_attempts[call.identifier]
       IN  /\ attempts # <<>>
           /\ attempts[Len(attempts)] = now
           /\ attempts[1] <= now - config.lockout_duration
    /\ \E other \in Identifiers : other \notin DOMAIN failed_attempts

(***************************************************************************)
(* The two methods that write failed_attempts, as time passes.             *)
(***************************************************************************)
NextClear ==
    \/ Tick
    \/ \E identifier \in Identifiers : RecordFailedAttempt(identifier)
    \/ \E identifier \in Identifiers : ClearFailedAttempts(identifier)

SpecClear == InitLockout /\ [][NextClear]_vars

\* C31: clear_failed_attempts(identifier) drops the identifier's record, so
\* that is_locked_out(identifier) is false afterwards and a later lockout
\* takes max_failed_attempts failures recorded since; record_failed_attempt
\* and clear_failed_attempts leave the record and the lockout status of every
\* other identifier as they were.
C31_ClearAndIsolation ==
    /\ [] ( /\ call.op = "clear_failed_attempts"
                => ( /\ call.identifier \notin DOMAIN failed_attempts
                     /\ ~is_locked_out(call.identifier) )
            /\ \A identifier \in Identifiers :
                  is_locked_out(identifier)
                     => Len(Get(failures, identifier, <<>>)) >= config.max_failed_attempts )
    /\ [][ ( /\ now' = now
             /\ call'.op \in {"record_failed_attempt", "clear_failed_attempts"} )
           => \A other \in Identifiers \ {call'.identifier} :
                 /\ (other \in DOMAIN failed_attempts') = (other \in DOMAIN failed_attempts)
                 /\ other \in DOMAIN failed_attempts
                       => failed_attempts'[other] = failed_attempts[other]
                 /\ is_locked_out(other)' = is_locked_out(other) ]_vars

\* C31 happens: an identifier that was locked out has just been cleared while
\* another identifier is still locked out.
C31_Witness ==
    /\ call.op = "clear_failed_attempts"
    /\ call.identifier \in DOMAIN call.before
    /\ Len(recent_failures(call.before[call.identifier])) >= config.max_failed_attempts
    /\ ~is_locked_out(call.identifier)
    /\ \E other \in Identifiers \ {call.identifier} : is_locked_out(other)

(***************************************************************************)
(* The lockout under any audit.log_level of the configuration.             *)
(***************************************************************************)
InitAudit ==
    /\ \E M \in 1..MaxAttempts, D \in 1..MaxDuration, level \in LogLevels :
            config = [DefaultConfig EXCEPT !.max_failed_attempts = M, !.lockout_duration = D,
                                           !.log_level = level]
    /\ request = None
    /\ InitRest

NextAudit ==
    \/ Tick
    \/ \E identifier \in Identifiers : RecordFailedAttempt(identifier)
    \/ \E identifier \in Identifiers : IsLockedOut(identifier)
    \/ \E identifier \in Identifiers : ClearFailedAttempts(identifier)

SpecAudit == InitAudit /\ [][NextAudit]_vars

\* C32: record_failed_attempt(identifier) returns true exactly when, with the
\* new failure counted, at least max_failed_attempts of the identifier's
\* failures lie within the trailing lockout_duration; a call that returns
\* true appends exactly one LOCKOUT event to the audit log and a call that
\* returns false appends none.
C32_LockoutAudited ==
    call.op = "record_failed_attempt"
        => LET recorded == Get(failures, call.identifier, <<>>)
               recent == {k \in DOMAIN recorded :
                              recorded[k] > call.time - config.lockout_duration}
           IN  /\ call.ret = (Cardinality(recent) >= config.max_failed_attempts)
               /\ call.ret => ( /\ Len(call.logged) = 1
                                /\ call.logged[1].event = "LOCKOUT" )
               /\ ~call.ret => call.logged = <<>>

\* C33: every decision check_file_access, check_web_access and
\* check_action_permission return, a denial above all, has appended at least
\* one entry to the audit log when the call returns.
C33_AuditCoverage ==
    ( /\ call.op \in {"check_file_access", "check_web_access", "check_action_permission"}
      /\ "ret" \in DOMAIN call )
        => call.logged # <<>>

\* C34: lock_vault, called on a locked or an unlocked vault, leaves it with
\* no key, an empty credential map in memory and no last access, and leaves
\* the vault file, its permissions and the salt file as they were; a second
\* lock_vault right after changes nothing more.
C34_LockIdempotent ==
    [][ call'.op = "lock_vault"
        => ( /\ cipher_suite' = None
             /\ credentials' = <<>>
             /\ last_access' = None
             /\ vault_file' = vault_file
             /\ salt_file' = salt_file
             /\ vault_mode' = vault_mode
             /\ lock_vault(V)' = V' ) ]_vars

\* C34 happens: lock_vault has just locked a vault that was unlocked and
\* whose file holds a stored credential.
C34_Witness ==
    /\ call.op = "lock_vault" /\ ~call.locked
    /\ cipher_suite = None /\ credentials = <<>> /\ last_access = None
    /\ vault_file # None
    /\ vault_file[1].data.credentials # <<>>

\* C35: the teardown that ends a scope leaves the sandbox inactive, with
\* sandbox_dir None and an empty registry, also when no process was spawned
\* and also when an earlier teardown has already run; run once more in the
\* state it leaves, it changes nothing.
C35_TeardownIdempotent ==
    [][ call'.op = "create_sandbox:exit"
        => ( /\ sandbox_dir' = None
             /\ active_processes' = <<>>
             /\ cleanup_sandbox'.sandbox_dir = sandbox_dir'
             /\ cleanup_sandbox'.active_processes = active_processes'
             /\ cleanup_sandbox'.directories = directories'
             /\ cleanup_sandbox'.processes = processes' ) ]_vars

\* C35 happens: a scope in which no process was spawned has just exited
\* after the teardown of another scope had already made the sandbox
\* inactive, so that its own teardown found nothing to do.
C35_Witness ==
    /\ call.op = "create_sandbox:exit"
    /\ call.dir \in directories
    /\ processes = <<>>
    /\ sandbox_dir = None
    /\ active_processes = <<>>

\* C36: when create_sandbox scopes of one SandboxEnvironment overlap, every
\* directory created has been removed once all of them have exited, and
\* while one scope is still open after the others exited the sandbox works
\* in that scope's directory, so that a command executed there is not
\* refused for want of a sandbox.
C36_OverlappingScopes ==
    /\ (\A k \in 1..MaxScopes : scopes[k].pc = "out") => directories = {}
    /\ \A k \in 1..MaxScopes :
          ( /\ scopes[k].pc = "in"
            /\ \A j \in 1..MaxScopes \ {k} : scopes[j].pc = "out" )
             => ( /\ sandbox_dir = scopes[k].dir
                  /\ call.op = "execute_sandboxed_command" => call.raised # "RuntimeError" )

\* C37: a store, retrieve, delete, list, stats or password change that
\* succeeds on the unlocked vault restarts the idle timer, that is, leaves
\* last_access at the time of the call; and is_locked returns false on a
\* vault that holds a key and was last accessed less than auto_lock_timeout
\* ago.  Together: is_locked returns false when any such call succeeded less
\* than auto_lock_timeout ago.
C37_IdleTimer ==
    [][ now' = now
        => ( /\ ( /\ call'.op \in {"store_credential", "retrieve_credential",
                                   "delete_credential", "list_services", "list_identifiers",
                                   "get_vault_stats", "change_master_password"}
                  /\ ~is_locked(V).ret
                  /\ CASE call'.op \in {"store_credential", "delete_credential",
                                        "change_master_password"} -> call'.ret = TRUE
                       [] call'.op = "retrieve_credential" -> call'.ret # None
                       [] OTHER -> TRUE )
                   => last_access' = Some(now)
             /\ ( /\ call'.op = "is_locked"
                  /\ cipher_suite # None
                  /\ last_access # None
                  /\ now - last_access[1] < auto_lock_timeout )
                   => call'.ret = FALSE ) ]_vars

\* C38: change_master_password(current, new) with a current password that is
\* not the one the vault file is encrypted under returns false, puts no new
\* key in place of the session key and leaves the salt file and the vault
\* file as they were, whether the vault is locked or unlocked at the call.
C38_WrongCurrentPassword ==
    [][ ( /\ now' = now
          /\ call'.op = "change_master_password"
          /\ vault_file # None
          /\ vault_file[1].key.password # call'.args.current_password )
        => ( /\ call'.ret = FALSE
             /\ cipher_suite' \in {cipher_suite, None}
             /\ salt_file' = salt_file
             /\ vault_file' = vault_file ) ]_vars

\* C39: a command _validate_command admits although its basename is neither
\* allow-listed nor a script names an executable inside the sandbox
\* directory; a path in a sibling directory whose name extends the sandbox
\* directory's, or one that leaves the sandbox through "..", is rejected.
C39_InsideMeansInside ==
    ( /\ call.op = "_validate_command"
      /\ sandbox_dir # None
      /\ call.command # <<>>
      /\ basename(call.command[1]) \notin allowed_commands
      /\ ~HasScriptExtension(basename(call.command[1]))
      /\ call.ret )
        => LiesInside(call.command[1], sandbox_dir[1])

\* C40: store_credential on a (service, identifier) that is already stored
\* replaces the payload and sets the modification time to the time of the
\* call, and keeps the entry's creation time and access count.  (One entry
\* per (service, identifier) is what the map of maps holds by construction.)
C40_UpsertKeepsHistory ==
    [][ ( /\ now' = now
          /\ call'.op = "store_credential"
          /\ call'.ret = TRUE
          /\ EntryOf(credentials, call'.args.service, call'.args.identifier) # None )
        => LET old == EntryOf(credentials, call'.args.service, call'.args.identifier)[1]
               new == EntryOf(credentials', call'.args.service, call'.args.identifier)[1]
           IN  /\ new.data = call'.args.credential_data
               /\ new.modified = now
               /\ new.created = old.created
               /\ new.access_count = old.access_count ]_vars

====
